---- MODULE Spec2Model ----
(***************************************************************************)
(* Model of the budget extraction engine: the validators                   *)
(* (validation.py), the line-by-line extractors (admin_units.py,           *)
(* economic.py, programme_projects.py) and the coordinator (pipeline.py).  *)
(*                                                                         *)
(* Conventions.  A Python Optional is a sequence of length at most one:    *)
(* None is << >> and a value x is << x >>.  A code string is the sequence  *)
(* of its digits, so that prefix tests are computed.  Amounts are          *)
(* integers (monetary units); the tolerance 1.0 is the integer 1.          *)
(* Each component has its own specification; the variables of the other    *)
(* components stay Idle under it.                                          *)
(***************************************************************************)
EXTENDS Integers, Sequences, FiniteSets, TLC

VARIABLES val, adm, eco, prg, pipe, ui

vars == <<val, adm, eco, prg, pipe, ui>>

Idle == [pc |-> "idle"]

(* ------------------------------ helpers -------------------------------- *)

None == << >>

Some(x) == << x >>

Abs(x) == IF x < 0 THEN -x ELSE x

RECURSIVE SumSeq(_)
SumSeq(s) == IF s = << >> THEN 0 ELSE Head(s) + SumSeq(Tail(s))

\* str.startswith
StartsWith(s, p) == Len(p) <= Len(s) /\ SubSeq(s, 1, Len(p)) = p

\* All sequences over S of length at most n.
SeqsUpTo(S, n) == UNION { [1..k -> S] : k \in 0..n }

\* schema.ExtractedField as the validators read it: only .value.
F(v) == [value |-> v]

\* ValidationError(code, message); the message is the tuple of the values
\* the f-string interpolates.
ValidationError(code, message) == [code |-> code, message |-> message]

HasError(errors, code) == \E i \in 1..Len(errors) : errors[i].code = code

(* ------------------- validation.validate_budget_components ------------- *)

BudgetTolerance == 1

BudgetAmounts == { None, Some(-2), Some(0), Some(1), Some(2), Some(3), Some(5) }

validate_budget_components_no_recurrent_check(budget_totals) ==
    LET total     == budget_totals.total_budget.value
        capital   == budget_totals.capital_expenditure_total.value
        recurrent == budget_totals.recurrent_expenditure_total.value
        rec       == IF recurrent = None THEN 0 ELSE recurrent[1]
    IN  IF total = None \/ capital = None THEN << >>
        ELSE IF Abs(total[1] - (capital[1] + rec)) > BudgetTolerance
             THEN << ValidationError("budget_totals_mismatch",
                                     <<total[1], capital[1], rec>>) >>
             ELSE << >>

validate_budget_components(budget_totals) ==
    LET total     == budget_totals.total_budget.value
        capital   == budget_totals.capital_expenditure_total.value
        recurrent == budget_totals.recurrent_expenditure_total.value
    IN  IF total = None \/ capital = None \/ recurrent = None THEN << >>
        ELSE IF Abs(total[1] - (capital[1] + recurrent[1])) > BudgetTolerance
             THEN << ValidationError("budget_totals_mismatch",
                                     <<total[1], capital[1], recurrent[1]>>) >>
             ELSE << >>

BudgetInputs ==
    { [total_budget |-> F(t), capital_expenditure_total |-> F(c),
       recurrent_expenditure_total |-> F(r)] :
         t \in BudgetAmounts, c \in BudgetAmounts, r \in BudgetAmounts }

InitBudget ==
    /\ val \in { [call |-> "validate_budget_components", budget_totals |-> b,
                  done |-> FALSE, errors |-> << >>] : b \in BudgetInputs }
    /\ adm = Idle /\ eco = Idle /\ prg = Idle /\ pipe = Idle /\ ui = Idle

ValidateBudgetComponents ==
    /\ val.call = "validate_budget_components"
    /\ ~val.done
    /\ val' = [val EXCEPT !.done = TRUE,
                          !.errors = validate_budget_components(val.budget_totals)]
    /\ UNCHANGED <<adm, eco, prg, pipe, ui>>

NextBudget == ValidateBudgetComponents

SpecBudget == InitBudget /\ [][NextBudget]_vars

\* C7: validate_budget_components returns a budget_totals_mismatch error if
\* and only if the three totals are all non-null and
\* |total_budget - (capital + recurrent)| > 1.0; with any of the three null
\* it returns no error (and it never returns anything else).
C7_BudgetMismatchIff ==
    (val.call = "validate_budget_components" /\ val.done) =>
        LET t == val.budget_totals.total_budget.value
            c == val.budget_totals.capital_expenditure_total.value
            r == val.budget_totals.recurrent_expenditure_total.value
            allPresent == t # None /\ c # None /\ r # None
        IN  /\ HasError(val.errors, "budget_totals_mismatch")
                <=> (allPresent /\ Abs(t[1] - (c[1] + r[1])) > 1)
            /\ ~allPresent => val.errors = << >>
            /\ Len(val.errors) <= 1

\* C7 witness: all three totals present, off by more than the tolerance, and
\* the validator has reported it.
C7_Witness ==
    /\ val.call = "validate_budget_components" /\ val.done
    /\ val.budget_totals.total_budget.value = Some(5)
    /\ val.budget_totals.capital_expenditure_total.value = Some(2)
    /\ val.budget_totals.recurrent_expenditure_total.value = Some(1)
    /\ HasError(val.errors, "budget_totals_mismatch")

(* ------------------ validation.validate_global_reconciliation ---------- *)

GlobalTolerance == 1

MaxEconRows == 3

MaxMdaRows == 2

InMapping(mapping, code) == \E i \in 1..Len(mapping) : mapping[i].code = code

\* `not code`: None or the empty string.
NoCode(code) == code = None \/ code[1] = << >>

RECURSIVE SumAmounts(_)
SumAmounts(entries) ==
    IF entries = << >> THEN 0 ELSE Head(entries).amount + SumAmounts(Tail(entries))

\* leaf_sum, lines 178-185: the dict code -> first amount, in insertion
\* order; rows without a code or without an amount are skipped.
RECURSIVE leaf_sum_mapping_last_wins(_, _)
leaf_sum_mapping_last_wins(rows, mapping) ==
    IF rows = << >> THEN mapping
    ELSE LET code   == Head(rows).code.value
             amount == Head(rows).amount.value
         IN  IF NoCode(code) \/ amount = None
             THEN leaf_sum_mapping_last_wins(Tail(rows), mapping)
             ELSE leaf_sum_mapping_last_wins(
                      Tail(rows),
                      Append(SelectSeq(mapping, LAMBDA e : e.code # code[1]),
                             [code |-> code[1], amount |-> amount[1]]))

RECURSIVE leaf_sum_mapping(_, _)
leaf_sum_mapping(rows, mapping) ==
    IF rows = << >> THEN mapping
    ELSE LET code   == Head(rows).code.value
             amount == Head(rows).amount.value
         IN  IF NoCode(code) \/ amount = None
             THEN leaf_sum_mapping(Tail(rows), mapping)
             ELSE IF InMapping(mapping, code[1])
                  THEN leaf_sum_mapping(Tail(rows), mapping)
                  ELSE leaf_sum_mapping(Tail(rows),
                                        Append(mapping, [code |-> code[1],
                                                         amount |-> amount[1]]))

\* leaf_sum, lines 190-195: a code is a leaf when no other key of the
\* mapping starts with it and is longer.
is_leaf_code(mapping, code) ==
    ~ \E j \in 1..Len(mapping) :
          StartsWith(mapping[j].code, code) /\ Len(mapping[j].code) > Len(code)

\* leaf_sum: None, or the sum over the leaf codes.
leaf_sum(rows) ==
    LET mapping    == leaf_sum_mapping(rows, << >>)
        leaf_codes == SelectSeq(mapping, LAMBDA e : is_leaf_code(mapping, e.code))
    IN  IF mapping = << >> THEN None
        ELSE IF leaf_codes = << >> THEN None
        ELSE Some(SumAmounts(leaf_codes))

\* lines 213-216 and 228-231: the values of the rows that have one.
present_values(values) == SelectSeq(values, LAMBDA v : v # None)

RECURSIVE SumValues(_)
SumValues(values) ==
    IF values = << >> THEN 0 ELSE Head(values)[1] + SumValues(Tail(values))

\* lines 216 and 231: `if values and len(values) == len(list(rows))`.
all_rows_have_value_unchecked(values, rows) == values # << >>

all_rows_have_value(values, rows) == values # << >> /\ Len(values) = Len(rows)

validate_global_reconciliation(budget_totals, revenue_rows, expenditure_rows, mda_rows, programme_rows, revenue_reference) ==
    LET total_budget == budget_totals.total_budget.value
        exp_sum      == leaf_sum(expenditure_rows)
        expErr ==
            IF exp_sum # None /\ Abs(total_budget[1] - exp_sum[1]) > GlobalTolerance
            THEN << ValidationError("global_expenditure_mismatch",
                                    <<total_budget[1], exp_sum[1]>>) >>
            ELSE << >>
        mda_totals ==
            present_values([i \in 1..Len(mda_rows) |-> mda_rows[i].total_amount.value])
        mdaErr ==
            IF all_rows_have_value(mda_totals, mda_rows)
               /\ Abs(total_budget[1] - SumValues(mda_totals)) > GlobalTolerance
            THEN << ValidationError("global_mda_mismatch",
                                    <<total_budget[1], SumValues(mda_totals)>>) >>
            ELSE << >>
        programme_values ==
            present_values([i \in 1..Len(programme_rows) |->
                                programme_rows[i].amount.value])
        progErr ==
            IF all_rows_have_value(programme_values, programme_rows)
               /\ Abs(total_budget[1] - SumValues(programme_values)) > GlobalTolerance
            THEN << ValidationError("global_programme_mismatch",
                                    <<total_budget[1], SumValues(programme_values)>>) >>
            ELSE << >>
        budgetErrs ==
            IF total_budget # None THEN expErr \o mdaErr \o progErr ELSE << >>
        \* lines 243-245: both branches read revenue_total.
        revenue_total == budget_totals.revenue_total.value
        rev_sum       == leaf_sum(revenue_rows)
        revErr ==
            IF revenue_total # None /\ rev_sum # None
               /\ Abs(revenue_total[1] - rev_sum[1]) > GlobalTolerance
            THEN << ValidationError("global_revenue_mismatch",
                                    <<revenue_total[1], rev_sum[1]>>) >>
            ELSE << >>
    IN  budgetErrs \o revErr

\* Rows as the validator reads them: a code and an amount, either may be
\* missing; the code may be the empty string.
GlobalCodes == { None, Some(<< >>), Some(<<2>>), Some(<<2, 1>>), Some(<<2, 2>>) }

GlobalAmounts == { None, Some(1), Some(2), Some(4) }

GlobalTotals == { None, Some(3) }

EconRow(code, amount) == [code |-> F(code), amount |-> F(amount)]

GlobalEconRows == { EconRow(c, a) : c \in GlobalCodes \ {None}, a \in GlobalAmounts }
                    \cup { EconRow(None, Some(2)) }

MdaRow(total) == [total_amount |-> F(total)]

ProgRow(amount) == [amount |-> F(amount)]

\* A fixed expenditure list whose leaves (21, 22) sum to 6.
SomeEconRows ==
    << EconRow(Some(<<2>>), Some(1)), EconRow(Some(<<2, 1>>), Some(4)),
       EconRow(Some(<<2, 2>>), Some(2)) >>

GlobalCall(bt, rev, exp, mda, prog, ref) ==
    [call |-> "validate_global_reconciliation", budget_totals |-> bt,
     revenue_rows |-> rev, expenditure_rows |-> exp, mda_rows |-> mda,
     programme_rows |-> prog, revenue_reference |-> ref,
     done |-> FALSE, errors |-> << >>]

\* the expenditure leaf-sum comparison
GlobalInputsExpenditure ==
    { GlobalCall([total_budget |-> F(t), revenue_total |-> F(None)],
                 << >>, exp, << >>, << >>, None) :
        t \in GlobalTotals, exp \in SeqsUpTo(GlobalEconRows, MaxEconRows) }

\* the MDA and programme comparisons
GlobalInputsMda ==
    { GlobalCall([total_budget |-> F(t), revenue_total |-> F(None)],
                 << >>, exp,
                 [i \in 1..Len(m) |-> MdaRow(m[i])],
                 [i \in 1..Len(p) |-> ProgRow(p[i])], None) :
        t \in GlobalTotals, exp \in { << >>, SomeEconRows },
        m \in SeqsUpTo(GlobalAmounts, MaxMdaRows),
        p \in SeqsUpTo({None, Some(2), Some(4)}, MaxMdaRows) }

\* the revenue comparison
GlobalInputsRevenue ==
    { GlobalCall([total_budget |-> F(t), revenue_total |-> F(r)],
                 rev, << >>, << >>, << >>, ref) :
        t \in { None, Some(3) }, r \in GlobalTotals,
        rev \in SeqsUpTo({ EconRow(Some(<<1>>), Some(2)), EconRow(Some(<<1, 1>>), Some(4)),
                           EconRow(Some(<<1>>), None) }, 2),
        ref \in { None, Some("recurrent_revenue") } }

InitGlobal ==
    /\ \/ val \in GlobalInputsExpenditure
       \/ val \in GlobalInputsMda
       \/ val \in GlobalInputsRevenue
    /\ adm = Idle /\ eco = Idle /\ prg = Idle /\ pipe = Idle /\ ui = Idle

ValidateGlobalReconciliation ==
    /\ val.call = "validate_global_reconciliation"
    /\ ~val.done
    /\ val' = [val EXCEPT
                 !.done = TRUE,
                 !.errors = validate_global_reconciliation(
                                val.budget_totals, val.revenue_rows,
                                val.expenditure_rows, val.mda_rows,
                                val.programme_rows, val.revenue_reference)]
    /\ UNCHANGED <<adm, eco, prg, pipe, ui>>

NextGlobal == ValidateGlobalReconciliation

SpecGlobal == InitGlobal /\ [][NextGlobal]_vars

\* The codes that carry an amount in some row.
C8_Codes(rows) ==
    { rows[i].code.value[1] :
        i \in { k \in 1..Len(rows) : /\ rows[k].code.value # None
                                     /\ rows[k].code.value[1] # << >>
                                     /\ rows[k].amount.value # None } }

\* The amount of the first row that carries code c with an amount.
C8_Amount(rows, c) ==
    LET idx == { k \in 1..Len(rows) : /\ rows[k].code.value = Some(c)
                                      /\ rows[k].amount.value # None }
        i   == CHOOSE k \in idx : \A j \in idx : k <= j
    IN  rows[i].amount.value[1]

\* The codes of S that no other code of S strictly extends.
C8_Leaves(S) == { c \in S : ~ \E d \in S : d # c /\ StartsWith(d, c) }

RECURSIVE C8_Sum(_, _)
C8_Sum(rows, S) ==
    IF S = {} THEN 0
    ELSE LET c == CHOOSE x \in S : TRUE
         IN  C8_Amount(rows, c) + C8_Sum(rows, S \ {c})

\* C8: validate_global_reconciliation emits global_expenditure_mismatch iff
\* total_budget is non-null, at least one expenditure row has a code and an
\* amount, and |total_budget - L| > 1.0, L the sum of the amounts of the
\* leaf codes (one amount per distinct code).
C8_ExpenditureMismatchIff ==
    (val.call = "validate_global_reconciliation" /\ val.done) =>
        LET tb == val.budget_totals.total_budget.value
            S  == C8_Codes(val.expenditure_rows)
            L  == C8_Sum(val.expenditure_rows, C8_Leaves(S))
        IN  HasError(val.errors, "global_expenditure_mismatch")
                <=> (tb # None /\ S # {} /\ Abs(tb[1] - L) > 1)

\* C8 witness: parent 2 and its children 21, 22 are present, only the two
\* leaves are summed (4 + 2 = 6, total_budget 3) and the error is emitted.
C8_Witness ==
    /\ val.call = "validate_global_reconciliation" /\ val.done
    /\ val.budget_totals.total_budget.value = Some(3)
    /\ val.expenditure_rows = SomeEconRows
    /\ val.mda_rows = << >>
    /\ HasError(val.errors, "global_expenditure_mismatch")

\* C9: global_mda_mismatch is emitted only when every MDA row has a
\* non-null total_amount, and global_programme_mismatch only when every
\* programme row has a non-null selected amount: one row without it
\* suppresses the comparison whatever the other values are.
C9_ComparisonOnlyWhenAllPresent ==
    (val.call = "validate_global_reconciliation" /\ val.done) =>
        /\ (\E i \in 1..Len(val.mda_rows) : val.mda_rows[i].total_amount.value = None)
              => ~HasError(val.errors, "global_mda_mismatch")
        /\ (\E i \in 1..Len(val.programme_rows) :
                val.programme_rows[i].amount.value = None)
              => ~HasError(val.errors, "global_programme_mismatch")

\* C9 witness: total_budget 3; the MDA rows that have a total sum to 1 and
\* the programme rows that have an amount sum to 8, both more than 1.0 from
\* 3, but one row of each list lacks its value and neither error is emitted.
C9_Witness ==
    /\ val.call = "validate_global_reconciliation" /\ val.done
    /\ val.budget_totals.total_budget.value = Some(3)
    /\ val.mda_rows = << MdaRow(Some(1)), MdaRow(None) >>
    /\ val.programme_rows = << ProgRow(None), ProgRow(Some(4)) >>
    /\ ~HasError(val.errors, "global_mda_mismatch")
    /\ ~HasError(val.errors, "global_programme_mismatch")

(* ------------------- validation.validate_economic_hierarchy ------------ *)

HierarchyTolerance == 1

MaxHierRows == 3

\* build_map, lines 343-352: the dict code -> first amount.
RECURSIVE build_map(_, _)
build_map(rows, mapping) ==
    IF rows = << >> THEN mapping
    ELSE LET code   == Head(rows).code.value
             amount == Head(rows).amount.value
         IN  IF NoCode(code) \/ amount = None
             THEN build_map(Tail(rows), mapping)
             ELSE IF InMapping(mapping, code[1])
                  THEN build_map(Tail(rows), mapping)
                  ELSE build_map(Tail(rows),
                                 Append(mapping, [code |-> code[1],
                                                  amount |-> amount[1]]))

MapGet(mapping, code) ==
    mapping[CHOOSE i \in 1..Len(mapping) : mapping[i].code = code].amount

\* Python's order on strings of digits of equal length.
LexLess(a, b) ==
    \E i \in 1..Len(a) : /\ i <= Len(b)
                         /\ a[i] < b[i]
                         /\ \A j \in 1..(i - 1) : a[j] = b[j]

\* the sort key (len(item), item) of line 355
KeyLess(a, b) == Len(a) < Len(b) \/ (Len(a) = Len(b) /\ LexLess(a, b))

RECURSIVE SortedCodes(_)
SortedCodes(S) ==
    IF S = {} THEN << >>
    ELSE LET least == CHOOSE c \in S : \A d \in S \ {c} : KeyLess(c, d)
         IN  << least >> \o SortedCodes(S \ {least})

\* line 357: only codes of at most two digits are reconciled.
is_reconciled_length_any(code) == TRUE

is_reconciled_length(code) == Len(code) <= 2

\* the body of reconcile's loop for one code, lines 357-381
reconcile_code(label, mapping, code) ==
    LET children == SelectSeq(mapping,
                        LAMBDA e : StartsWith(e.code, code) /\ Len(e.code) > Len(code))
        min_len  == CHOOSE n \in { Len(children[i].code) : i \in 1..Len(children) } :
                        \A i \in 1..Len(children) : n <= Len(children[i].code)
        direct_children == SelectSeq(children, LAMBDA e : Len(e.code) = min_len)
        child_sum == SumAmounts(direct_children)
    IN  IF ~is_reconciled_length(code) THEN << >>
        ELSE IF children = << >> THEN << >>
        ELSE IF Len(direct_children) < 2 THEN << >>
        ELSE IF Abs(MapGet(mapping, code) - child_sum) > HierarchyTolerance
             THEN << ValidationError("economic_reconciliation_failed",
                        <<label, code, MapGet(mapping, code), child_sum>>) >>
             ELSE << >>

RECURSIVE reconcile_codes(_, _, _)
reconcile_codes(label, mapping, codes) ==
    IF codes = << >> THEN << >>
    ELSE reconcile_code(label, mapping, Head(codes))
            \o reconcile_codes(label, mapping, Tail(codes))

reconcile(label, mapping) ==
    reconcile_codes(label, mapping,
                    SortedCodes({ mapping[i].code : i \in 1..Len(mapping) }))

validate_economic_hierarchy(revenue_rows, expenditure_rows) ==
    reconcile("revenue", build_map(revenue_rows, << >>))
        \o reconcile("expenditure", build_map(expenditure_rows, << >>))

HierCodes == { << >>, <<1>>, <<1, 1>>, <<1, 2>>, <<1, 1, 1>>, <<1, 1, 1, 1>>, <<1, 1, 1, 2>> }

HierAmounts == { None, Some(1), Some(3) }

HierRows == { EconRow(Some(c), a) : c \in HierCodes \ { << >> }, a \in HierAmounts }
               \cup { EconRow(Some(<< >>), Some(3)) }

\* Rows of the other section: code 1 (amount 1) against 11 + 12 (1 + 3), an error there.
HierOtherRows ==
    << EconRow(Some(<<1>>), Some(1)), EconRow(Some(<<1, 1>>), Some(1)),
       EconRow(Some(<<1, 2>>), Some(3)) >>

HierCall(rev, exp) ==
    [call |-> "validate_economic_hierarchy", revenue_rows |-> rev,
     expenditure_rows |-> exp, done |-> FALSE, errors |-> << >>]

InitHierarchy ==
    /\ \/ val \in { HierCall(rows, << >>) : rows \in SeqsUpTo(HierRows, MaxHierRows) }
       \/ val \in { HierCall(HierOtherRows, rows) :
                       rows \in SeqsUpTo(HierRows, MaxHierRows) }
    /\ adm = Idle /\ eco = Idle /\ prg = Idle /\ pipe = Idle /\ ui = Idle

ValidateEconomicHierarchy ==
    /\ val.call = "validate_economic_hierarchy"
    /\ ~val.done
    /\ val' = [val EXCEPT
                 !.done = TRUE,
                 !.errors = validate_economic_hierarchy(val.revenue_rows,
                                                        val.expenditure_rows)]
    /\ UNCHANGED <<adm, eco, prg, pipe, ui>>

NextHierarchy == ValidateEconomicHierarchy

SpecHierarchy == InitHierarchy /\ [][NextHierarchy]_vars

\* The direct children of c in S: the codes that strictly extend c and have
\* the minimal length among those that do.
C10_DirectChildren(S, c) ==
    LET ext == { d \in S : d # c /\ StartsWith(d, c) }
    IN  { d \in ext : \A e \in ext : Len(d) <= Len(e) }

C10_ErrorFor(errors, label, c) ==
    \E i \in 1..Len(errors) :
        /\ errors[i].code = "economic_reconciliation_failed"
        /\ errors[i].message[1] = label
        /\ errors[i].message[2] = c

C10_SectionOk(errors, label, rows) ==
    LET S == C8_Codes(rows)
    IN  \A c \in S :
            C10_ErrorFor(errors, label, c)
                <=> /\ Len(c) <= 2
                    /\ Cardinality(C10_DirectChildren(S, c)) >= 2
                    /\ Abs(C8_Amount(rows, c)
                             - C8_Sum(rows, C10_DirectChildren(S, c))) > 1

\* C10: for each section and every accepted code c of length <= 2 with at
\* least 2 direct children, validate_economic_hierarchy emits
\* economic_reconciliation_failed for c iff |amount(c) - sum of the direct
\* children's amounts| > 1.0; longer codes and codes with fewer than 2
\* direct children never produce the error.
C10_HierarchyIff ==
    (val.call = "validate_economic_hierarchy" /\ val.done) =>
        /\ C10_SectionOk(val.errors, "revenue", val.revenue_rows)
        /\ C10_SectionOk(val.errors, "expenditure", val.expenditure_rows)
        /\ \A i \in 1..Len(val.errors) :
              /\ val.errors[i].code = "economic_reconciliation_failed"
              /\ \/ /\ val.errors[i].message[1] = "revenue"
                    /\ val.errors[i].message[2] \in C8_Codes(val.revenue_rows)
                 \/ /\ val.errors[i].message[1] = "expenditure"
                    /\ val.errors[i].message[2] \in C8_Codes(val.expenditure_rows)

\* C10 witness: expenditure code 1 (amount 1) with direct children 11 and
\* 12 (3 + 3) is reported.
C10_Witness ==
    /\ val.call = "validate_economic_hierarchy" /\ val.done
    /\ val.expenditure_rows = << EconRow(Some(<<1>>), Some(1)),
                                 EconRow(Some(<<1, 1>>), Some(3)),
                                 EconRow(Some(<<1, 2>>), Some(3)) >>
    /\ C10_ErrorFor(val.errors, "expenditure", <<1>>)

\* C10 second witness: code 111 of three digits has two children 1111 and
\* 1112 that do not add up, and is not reported.
C10_WitnessLongCode ==
    /\ val.call = "validate_economic_hierarchy" /\ val.done
    /\ val.revenue_rows = << EconRow(Some(<<1, 1, 1>>), Some(1)),
                             EconRow(Some(<<1, 1, 1, 1>>), Some(3)),
                             EconRow(Some(<<1, 1, 1, 2>>), Some(3)) >>
    /\ val.errors = << >>

(* ------------------- validation.validate_mda_reconciliation ------------ *)

MdaTolerance == 1

MaxUnits == 2

\* schema.AmountItem
AmountItem(label, amount) == [label |-> label, amount |-> F(amount)]

\* The entry of a dict (a sequence of [key, value] in insertion order), or None.
DictGet(dict, key) ==
    IF \E i \in 1..Len(dict) : dict[i].key = key
    THEN Some(dict[CHOOSE i \in 1..Len(dict) : dict[i].key = key].value)
    ELSE None

DictPut(dict, key, value) ==
    IF \E i \in 1..Len(dict) : dict[i].key = key
    THEN [i \in 1..Len(dict) |->
            IF dict[i].key = key THEN [key |-> key, value |-> value] ELSE dict[i]]
    ELSE Append(dict, [key |-> key, value |-> value])

\* lines 73-78 with the running total replaced by the last amount read
RECURSIVE add_unit_amounts_overwrite(_, _)
add_unit_amounts_overwrite(sums, items) ==
    IF items = << >> THEN sums
    ELSE LET item == Head(items)
         IN  IF item.amount.value = None
             THEN add_unit_amounts_overwrite(sums, Tail(items))
             ELSE add_unit_amounts_overwrite(
                      DictPut(sums, item.label, item.amount.value[1]), Tail(items))

\* lines 73-78: add the unit's non-null amounts to the sums of its parent.
RECURSIVE add_unit_amounts(_, _)
add_unit_amounts(sums, items) ==
    IF items = << >> THEN sums
    ELSE LET item == Head(items)
             old  == DictGet(sums, item.label)
         IN  IF item.amount.value = None
             THEN add_unit_amounts(sums, Tail(items))
             ELSE add_unit_amounts(
                      DictPut(sums, item.label,
                              (IF old = None THEN 0 ELSE old[1]) + item.amount.value[1]),
                      Tail(items))

\* lines 62-78: unit_sums, keyed by (table_type, parent_code).
RECURSIVE unit_sums_of(_, _)
unit_sums_of(units, unit_sums) ==
    IF units = << >> THEN unit_sums
    ELSE LET unit        == Head(units)
             parent_code == unit.parent_code.value
             key         == <<unit.table_type, parent_code[1]>>
             old         == DictGet(unit_sums, key)
         IN  IF unit.table_type # "expenditure_mda"
             THEN unit_sums_of(Tail(units), unit_sums)
             ELSE IF NoCode(parent_code)
             THEN unit_sums_of(Tail(units), unit_sums)
             ELSE unit_sums_of(
                      Tail(units),
                      DictPut(unit_sums, key,
                              add_unit_amounts(IF old = None THEN << >> ELSE old[1],
                                               unit.amounts)))

\* lines 87-103: the items of one parent row against the sums of its key.
RECURSIVE check_parent_items(_, _, _)
check_parent_items(parent, items, sums) ==
    IF items = << >> THEN << >>
    ELSE LET item     == Head(items)
             expected == item.amount.value
             actual   == DictGet(sums, item.label)
             rest     == check_parent_items(parent, Tail(items), sums)
         IN  IF expected = None THEN rest
             ELSE IF actual = None THEN rest
             ELSE IF Abs(expected[1] - actual[1]) > MdaTolerance
                  THEN << ValidationError("mda_reconciliation_failed",
                              <<parent.code, item.label, expected[1], actual[1]>>) >>
                         \o rest
                  ELSE rest

\* lines 80-105
RECURSIVE check_parents(_, _)
check_parents(parent_rows, unit_sums) ==
    IF parent_rows = << >> THEN << >>
    ELSE LET parent == Head(parent_rows)
             key    == <<parent.table_type, parent.code>>
             sums   == DictGet(unit_sums, key)
             rest   == check_parents(Tail(parent_rows), unit_sums)
         IN  IF parent.table_type # "expenditure_mda" THEN rest
             ELSE IF sums = None THEN rest
             ELSE check_parent_items(parent, parent.amounts, sums[1]) \o rest

validate_mda_reconciliation(parent_rows, units) ==
    check_parents(parent_rows, unit_sums_of(units, << >>))

\* Two parent codes (^\d{6,}0{4,}$).
ParentA == <<0, 2, 1, 5, 0, 0, 0, 0, 0, 0>>

ParentB == <<0, 2, 1, 6, 0, 0, 0, 0, 0, 0>>

\* The units the validator is given: their table type, parent code and the
\* amounts of two labels.
MdaUnits ==
    { [table_type |-> k[1], parent_code |-> F(k[2]),
       amounts |-> << AmountItem("capital", c), AmountItem("total_expenditure", t) >>] :
        k \in { <<"expenditure_mda", Some(ParentA)>>, <<"expenditure_mda", Some(ParentB)>>,
                <<"expenditure_mda", None>>, <<"revenue_mda", Some(ParentA)>> },
        c \in { None, Some(1), Some(2) }, t \in { None, Some(2) } }

\* The parent rows: a row of code ParentA, alone or followed by one of code
\* ParentB.
MdaParents ==
    { [table_type |-> tt, code |-> ParentA,
       amounts |-> << AmountItem("capital", c), AmountItem("total_expenditure", t) >>] :
        tt \in { "expenditure_mda", "revenue_mda" },
        c \in { None, Some(1), Some(4) }, t \in { None, Some(2) } }

OtherParent ==
    [table_type |-> "expenditure_mda", code |-> ParentB,
     amounts |-> << AmountItem("capital", Some(1)) >>]

MdaCall(parent_rows, units) ==
    [call |-> "validate_mda_reconciliation", parent_rows |-> parent_rows,
     units |-> units, done |-> FALSE, errors |-> << >>]

InitMda ==
    /\ \/ val \in { MdaCall(<< p >>, u) : p \in MdaParents, u \in SeqsUpTo(MdaUnits, MaxUnits) }
       \/ val \in { MdaCall(<< p, OtherParent >>, u) :
                       p \in MdaParents, u \in SeqsUpTo(MdaUnits, MaxUnits) }
    /\ adm = Idle /\ eco = Idle /\ prg = Idle /\ pipe = Idle /\ ui = Idle

ValidateMdaReconciliation ==
    /\ val.call = "validate_mda_reconciliation"
    /\ ~val.done
    /\ val' = [val EXCEPT
                 !.done = TRUE,
                 !.errors = validate_mda_reconciliation(val.parent_rows, val.units)]
    /\ UNCHANGED <<adm, eco, prg, pipe, ui>>

NextMda == ValidateMdaReconciliation

SpecMda == InitMda /\ [][NextMda]_vars

\* The amount a list of amount items carries on a label, or None.
C3_Amount(items, label) ==
    IF \E i \in 1..Len(items) : items[i].label = label /\ items[i].amount.value # None
    THEN items[CHOOSE i \in 1..Len(items) :
                   items[i].label = label /\ items[i].amount.value # None].amount.value
    ELSE None

\* The indices of the expenditure_mda units attached to parent code c.
C3_Children(units, c) ==
    { i \in 1..Len(units) : /\ units[i].table_type = "expenditure_mda"
                            /\ units[i].parent_code.value = Some(c) }

RECURSIVE C3_ChildSum(_, _, _)
C3_ChildSum(units, idx, label) ==
    IF idx = {} THEN 0
    ELSE LET i == CHOOSE x \in idx : TRUE
             a == C3_Amount(units[i].amounts, label)
         IN  (IF a = None THEN 0 ELSE a[1]) + C3_ChildSum(units, idx \ {i}, label)

C3_ErrorFor(errors, c, label) ==
    \E i \in 1..Len(errors) :
        /\ errors[i].code = "mda_reconciliation_failed"
        /\ errors[i].message[1] = c
        /\ errors[i].message[2] = label

C3_Labels == { "capital", "total_expenditure" }

MaxAdmLines == 4

MaxAdmPages == 2

Num(n) == [t |-> "num", v |-> n]

Dash == [t |-> "dash"]

Txt(str) == [t |-> "txt", s |-> str]

Empty == [t |-> "empty"]

\* schema.ExtractedField.with_value / .null
with_value(value, provenance) ==
    [value |-> Some(value), reason |-> None, provenance |-> provenance]

null(reason) == [value |-> None, reason |-> Some(reason), provenance |-> << >>]

Provenance(page, line_text) == [page |-> page, line_text |-> line_text]

\* admin_units.parse_amount on a raw fragment
parse_amount(raw) ==
    CASE raw.t = "empty" -> None
      [] raw.t = "dash"  -> Some(0)
      [] raw.t = "num"   -> Some(raw.v)
      [] OTHER           -> None

\* `phrase in lower`: the phrase occurs in the text, as such or inside a
\* longer phrase.
Occurs(phrases, phrase) ==
    \E i \in 1..Len(phrases) :
        \/ phrases[i] = phrase
        \/ phrases[i] = "total recurrent" /\ phrase = "recurrent"
        \/ phrases[i] = "personnel expenditure" /\ phrase = "personnel"
        \/ phrases[i] = "capital expenditure" /\ phrase = "capital"

HEADER_CONTEXT_KEYWORDS ==
    { "personnel", "overhead", "total recurrent", "capital", "total expenditure",
      "recurrent", "development", "other", "federation account",
      "independent revenue", "aids and grants", "fund receipts", "total revenue", "igr" }

is_header_line(line) == line.kind = "header"

is_header_context_line(line) ==
    /\ line.kind \in { "header", "text" }
    /\ \E k \in HEADER_CONTEXT_KEYWORDS : Occurs(line.phrases, k)

HeaderContext(labels, table_type) == [labels |-> labels, table_type |-> table_type]

\* The labels the patterns of lines 122-136 find for one phrase, by offset.
PatternLabels(phrase) ==
    CASE phrase = "total expenditure"     -> << "total_expenditure" >>
      [] phrase = "total recurrent"       -> << "total_recurrent", "recurrent" >>
      [] phrase = "independent revenue"   -> << "independent_revenue" >>
      [] phrase = "federation account"    -> << "federation_account_revenues" >>
      [] phrase = "fund receipts"         -> << "capital_development_fund_receipts" >>
      [] phrase = "aids and grants"       -> << "aids_and_grants" >>
      [] phrase = "personnel"             -> << "personnel" >>
      [] phrase = "personnel expenditure" -> << "personnel" >>
      [] phrase = "overhead"              -> << "overhead" >>
      [] phrase = "capital"               -> << "capital" >>
      [] phrase = "capital expenditure"   -> << "capital" >>
      [] phrase = "recurrent"             -> << "recurrent" >>
      [] phrase = "development"           -> << "development" >>
      [] phrase = "other"                 -> << "other" >>
      [] phrase = "total revenue"         -> << "total_revenue" >>
      [] OTHER                            -> << >>

RECURSIVE OrderedLabels(_)
OrderedLabels(phrases) ==
    IF phrases = << >> THEN << >>
    ELSE PatternLabels(Head(phrases)) \o OrderedLabels(Tail(phrases))

\* lines 143-149: first occurrences, in order
RECURSIVE Dedupe(_, _)
Dedupe(labels, seen) ==
    IF labels = << >> THEN << >>
    ELSE IF Head(labels) \in seen THEN Dedupe(Tail(labels), seen)
    ELSE << Head(labels) >> \o Dedupe(Tail(labels), seen \cup { Head(labels) })

RECURSIVE JoinPhrases(_)
JoinPhrases(header_lines) ==
    IF header_lines = << >> THEN << >>
    ELSE Head(header_lines).phrases \o JoinPhrases(Tail(header_lines))

ExpenditureMdaLabels ==
    << "personnel", "overhead", "total_recurrent", "capital", "total_expenditure" >>

\* admin_units.infer_labels; the table type of an unrecognised header is
\* "unknown_<signature>", of which only the prefix is read.
infer_labels(header_lines) ==
    LET lower == JoinPhrases(header_lines)
    IN  IF /\ Occurs(lower, "personnel") /\ Occurs(lower, "overhead")
           /\ Occurs(lower, "total recurrent") /\ Occurs(lower, "capital")
           /\ Occurs(lower, "total expenditure")
        THEN HeaderContext(ExpenditureMdaLabels, "expenditure_mda")
        ELSE IF /\ Occurs(lower, "personnel expenditure")
                /\ Occurs(lower, "capital expenditure")
                /\ Occurs(lower, "total expenditure")
        THEN HeaderContext(ExpenditureMdaLabels, "expenditure_mda")
        ELSE IF /\ Occurs(lower, "recurrent") /\ Occurs(lower, "development")
                /\ Occurs(lower, "other")
        THEN HeaderContext(<< "recurrent", "development", "other" >>, "expenditure_admin")
        ELSE IF /\ Occurs(lower, "federation account")
                /\ Occurs(lower, "independent revenue")
                /\ Occurs(lower, "aids and grants") /\ Occurs(lower, "fund receipts")
                /\ Occurs(lower, "total revenue")
        THEN HeaderContext(<< "federation_account_revenues", "independent_revenue",
                              "aids_and_grants", "capital_development_fund_receipts",
                              "total_revenue" >>, "revenue_mda")
        ELSE HeaderContext(Dedupe(OrderedLabels(lower), {}), "unknown")

allowed_table_types == { "expenditure_mda", "revenue_mda", "expenditure_admin" }

\* admin_units.parse_row on a row line: (code, name, amount_columns).
parse_row(line) ==
    IF line.rest = "" /\ Len(line.cols) > 0
    THEN [code |-> line.code,
          name |-> IF line.cols[1].t = "txt" THEN line.cols[1].s ELSE "(number)",
          amount_columns |-> Tail(line.cols)]
    ELSE [code |-> line.code, name |-> line.rest, amount_columns |-> line.cols]

\* is_parent_code with eight digits, not six, before the zeros
is_parent_code_eight(code) ==
    /\ Len(code) >= 12
    /\ \A i \in (Len(code) - 3)..Len(code) : code[i] = 0

\* PARENT_CODE_RE  ^\d{6,}0{4,}$
is_parent_code(code) ==
    /\ Len(code) >= 10
    /\ \A i \in (Len(code) - 3)..Len(code) : code[i] = 0

\* str.rstrip("0")
RECURSIVE rstrip0(_)
rstrip0(code) ==
    IF code # << >> /\ code[Len(code)] = 0
    THEN rstrip0(SubSeq(code, 1, Len(code) - 1))
    ELSE code

\* find_parent_code without the sort by prefix length
find_parent_code_first(unit_code, parent_codes) ==
    LET candidates ==
            SelectSeq(parent_codes,
                      LAMBDA parent : /\ rstrip0(parent) # << >>
                                      /\ StartsWith(unit_code, rstrip0(parent)))
    IN  IF candidates = << >> THEN None ELSE Some(candidates[1])

\* admin_units.find_parent_code over the keys of parents, in insertion
\* order: the first candidate of maximal prefix length (sorted is stable).
find_parent_code(unit_code, parent_codes) ==
    LET candidates ==
            SelectSeq(parent_codes,
                      LAMBDA parent : /\ rstrip0(parent) # << >>
                                      /\ StartsWith(unit_code, rstrip0(parent)))
    IN  IF candidates = << >> THEN None
        ELSE LET best == CHOOSE i \in 1..Len(candidates) :
                            /\ \A j \in 1..Len(candidates) :
                                   Len(rstrip0(candidates[j])) <= Len(rstrip0(candidates[i]))
                            /\ \A j \in 1..(i - 1) :
                                   Len(rstrip0(candidates[j])) < Len(rstrip0(candidates[i]))
             IN  Some(candidates[best])

\* lines 267-286: one amount item per label and per amount column.
row_amounts(labels, amount_columns, page_index, line) ==
    LET labels2 == IF labels = << >>
                   THEN [i \in 1..Len(amount_columns) |-> <<"amount", i>>]
                   ELSE labels
        max_len == IF Len(labels2) >= Len(amount_columns)
                   THEN Len(labels2) ELSE Len(amount_columns)
    IN  [idx \in 1..max_len |->
            LET label == IF idx <= Len(labels2) THEN labels2[idx] ELSE <<"amount", idx>>
                raw_value == IF idx <= Len(amount_columns)
                             THEN amount_columns[idx] ELSE Empty
                parsed_value == parse_amount(raw_value)
            IN  [label |-> label,
                 amount |-> IF parsed_value = None
                            THEN null("missing_amount")
                            ELSE with_value(parsed_value[1],
                                            << Provenance(page_index, line) >>)]]

\* lines 315-318 without the membership test
add_unit_always(st, unit) ==
    [st EXCEPT !.admin_units = Append(@, unit),
               !.seen_units = @ \cup { <<unit.table_type, unit.unit_code.value[1]>> }]

\* lines 315-318: the unit is appended unless its key was seen.
add_unit(st, unit) ==
    LET unit_key == <<unit.table_type, unit.unit_code.value[1]>>
    IN  IF unit_key \notin st.seen_units
        THEN [st EXCEPT !.admin_units = Append(@, unit),
                        !.seen_units = @ \cup { unit_key }]
        ELSE st

\* admin_row without the test of line 292: a row with a null amount is kept
admin_row_keep_null(st, line) ==
    LET parsed  == parse_row(line)
        code    == parsed.code
        name    == parsed.name
        amounts == row_amounts(st.header_context[1].labels, parsed.amount_columns,
                               st.page_index, line)
        parent_code == find_parent_code(code, [i \in 1..Len(st.parents) |->
                                                   st.parents[i].key])
        unit ==
            [parent_code |-> IF parent_code # None
                             THEN with_value(parent_code[1], << >>)
                             ELSE null("parent_not_found"),
             parent_name |-> IF parent_code # None
                             THEN with_value(DictGet(st.parents, parent_code[1])[1], << >>)
                             ELSE null("parent_not_found"),
             unit_code   |-> with_value(code, << >>),
             unit_name   |-> with_value(name, << >>),
             amounts     |-> amounts,
             page        |-> st.page_index,
             line_text   |-> line,
             table_type  |-> st.header_context[1].table_type]
    IN  IF name = "" THEN st
        ELSE IF is_parent_code(code)
        THEN [st EXCEPT !.parents = DictPut(@, code, name)]
        ELSE IF ~ \E i \in 1..Len(amounts) : amounts[i].amount.value # None THEN st
        ELSE add_unit(st, unit)

\* lines 252-318: a digit-prefixed line read under a header context.
admin_row(st, line) ==
    LET parsed  == parse_row(line)
        code    == parsed.code
        name    == parsed.name
        amounts == row_amounts(st.header_context[1].labels, parsed.amount_columns,
                               st.page_index, line)
        parent_code == find_parent_code(code, [i \in 1..Len(st.parents) |->
                                                   st.parents[i].key])
        unit ==
            [parent_code |-> IF parent_code # None
                             THEN with_value(parent_code[1], << >>)
                             ELSE null("parent_not_found"),
             parent_name |-> IF parent_code # None
                             THEN with_value(DictGet(st.parents, parent_code[1])[1], << >>)
                             ELSE null("parent_not_found"),
             unit_code   |-> with_value(code, << >>),
             unit_name   |-> with_value(name, << >>),
             amounts     |-> amounts,
             page        |-> st.page_index,
             line_text   |-> line,
             table_type  |-> st.header_context[1].table_type]
    IN  IF name = "" THEN st
        ELSE IF is_parent_code(code)
        THEN [st EXCEPT !.parents = DictPut(@, code, name)]
        ELSE IF ~ \E i \in 1..Len(amounts) : amounts[i].amount.value # None THEN st
        ELSE IF \E i \in 1..Len(amounts) : amounts[i].amount.value = None THEN st
        ELSE add_unit(st, unit)

\* admin_header without the test of the table type
admin_header_any_type(st, line, next_lines) ==
    LET before == IF st.prev_line # None /\ is_header_context_line(st.prev_line[1])
                  THEN << st.prev_line[1] >> ELSE << >>
        after  == SelectSeq(next_lines, is_header_context_line)
    IN  [st EXCEPT !.header_context = Some(infer_labels(before \o << line >> \o after))]

\* lines 228-246: a header line, with the line before it and the (at most
\* two) lines after it on the page.
admin_header(st, line, next_lines) ==
    LET before == IF st.prev_line # None /\ is_header_context_line(st.prev_line[1])
                  THEN << st.prev_line[1] >> ELSE << >>
        after  == SelectSeq(next_lines, is_header_context_line)
        header_context == infer_labels(before \o << line >> \o after)
    IN  [st EXCEPT !.header_context =
            IF header_context.table_type = "unknown" THEN None
            ELSE IF header_context.table_type \notin allowed_table_types THEN None
            ELSE Some(header_context)]

\* the body of the while loop, lines 220-320, for one line
admin_line(st, line, next_lines) ==
    LET st2 == IF line.kind = "blank" THEN st
               ELSE IF line.kind = "pageno" THEN st
               ELSE IF is_header_line(line) THEN admin_header(st, line, next_lines)
               ELSE IF line.kind = "row" /\ st.header_context = None THEN st
               ELSE IF st.header_context # None /\ line.kind = "row"
               THEN admin_row(st, line)
               ELSE st
    IN  [st2 EXCEPT !.prev_line = Some(line)]

BlankLine == [kind |-> "blank"]

PageNoLine == [kind |-> "pageno"]

TextLine(phrases) == [kind |-> "text", phrases |-> phrases]

HeaderLine(phrases) == [kind |-> "header", phrases |-> phrases]

RowLine(code, rest, cols) == [kind |-> "row", code |-> code, rest |-> rest, cols |-> cols]

ExpenditureMdaPhrases ==
    << "personnel", "overhead", "total recurrent", "capital", "total expenditure" >>

LeafA == <<0, 2, 1, 5, 0, 0, 1>>

LeafX == <<0, 9, 9, 0, 0, 1>>

\* The lines the pages are made of.
AdmHeaderLines ==
    { HeaderLine(<< >>), HeaderLine(ExpenditureMdaPhrases),
      HeaderLine(<< "recurrent", "development", "other" >>),
      HeaderLine(<< "personnel", "capital" >>),
      TextLine(ExpenditureMdaPhrases) }

ParentTop == <<0, 2, 0, 0, 0, 0, 0, 0, 0, 0>>

AdmRowLines ==
    { RowLine(ParentTop, "Sector", << Num(9), Num(9), Num(18), Num(4), Num(22) >>),
      RowLine(ParentA, "Education", << Num(9), Num(9), Num(18), Num(4), Num(22) >>),
      RowLine(ParentA, "", << >>),
      RowLine(LeafA, "Ministry", << Num(1), Num(2), Num(3), Num(4), Num(7) >>),
      RowLine(LeafA, "Ministry", << Num(1), Num(2), Num(3), Dash, Num(3) >>),
      RowLine(LeafA, "Ministry", << Num(1), Num(2), Num(3) >>),
      RowLine(LeafA, "", << Txt("Ministry"), Num(5), Txt("n/a"), Num(5) >>),
      RowLine(LeafX, "Agency", << Num(1), Num(2), Num(3), Num(4), Num(7) >>) }

AdmLines == { BlankLine, PageNoLine, TextLine(<< >>) } \cup AdmHeaderLines \cup AdmRowLines

AdmStart ==
    [pc |-> "scan", page_index |-> 0, header_context |-> None, prev_line |-> None,
     pending |-> << >>, page_ends |-> TRUE, nlines |-> 0,
     admin_units |-> << >>, parents |-> << >>, seen_units |-> {}]

InitAdmin ==
    /\ adm = AdmStart
    /\ val = Idle /\ eco = Idle /\ prg = Idle /\ pipe = Idle /\ ui = Idle

\* AdminNextPage without the reset of the header context (line 215 left out)
AdminNextPageKeepContext ==
    /\ adm.pc = "scan"
    /\ adm.pending = << >>
    /\ adm.page_index < MaxAdmPages
    /\ adm' = [adm EXCEPT !.page_index = @ + 1,
                          !.prev_line = None, !.page_ends = FALSE]
    /\ UNCHANGED <<val, eco, prg, pipe, ui>>

\* AdminNextPage with a parents table of the page (emptied when it begins)
AdminNextPageNewParents ==
    /\ adm.pc = "scan"
    /\ adm.pending = << >>
    /\ adm.page_index < MaxAdmPages
    /\ adm' = [adm EXCEPT !.page_index = @ + 1, !.header_context = None,
                          !.prev_line = None, !.page_ends = FALSE,
                          !.parents = << >>]
    /\ UNCHANGED <<val, eco, prg, pipe, ui>>

\* line 213-216: the next page begins.
AdminNextPage ==
    /\ adm.pc = "scan"
    /\ adm.pending = << >>
    /\ adm.page_index < MaxAdmPages
    /\ adm' = [adm EXCEPT !.page_index = @ + 1, !.header_context = None,
                          !.prev_line = None, !.page_ends = FALSE]
    /\ UNCHANGED <<val, eco, prg, pipe, ui>>

\* lines 219-320: one line of the page is read. A header line fixes the
\* lines it looks ahead at.
AdminReadLine ==
    /\ adm.pc = "scan"
    /\ adm.page_index >= 1
    /\ adm.nlines < MaxAdmLines
    /\ adm.pending # << >> \/ ~adm.page_ends
    /\ \E line \in (IF adm.pending # << >> THEN { Head(adm.pending) } ELSE AdmLines) :
         LET rest == IF adm.pending # << >> THEN Tail(adm.pending) ELSE << >>
         IN  IF is_header_line(line)
             THEN \E more \in (IF adm.page_ends THEN { << >> }
                               ELSE SeqsUpTo(AdmLines, 2 - Len(rest))) :
                    /\ adm.nlines + 1 + Len(rest \o more) <= MaxAdmLines
                    /\ adm' = [admin_line(adm, line, rest \o more) EXCEPT
                                  !.pending = rest \o more,
                                  !.page_ends = adm.page_ends \/ Len(rest \o more) < 2,
                                  !.nlines = @ + 1]
             ELSE adm' = [admin_line(adm, line, << >>) EXCEPT
                             !.pending = rest, !.nlines = @ + 1]
    /\ UNCHANGED <<val, eco, prg, pipe, ui>>

\* line 322
AdminReturn ==
    /\ adm.pc = "scan"
    /\ adm.pending = << >>
    /\ adm' = [adm EXCEPT !.pc = "done"]
    /\ UNCHANGED <<val, eco, prg, pipe, ui>>

NextAdmin == AdminNextPage \/ AdminReadLine \/ AdminReturn

SpecAdmin == InitAdmin /\ [][NextAdmin]_vars

UnitKey(unit) == <<unit.table_type, unit.unit_code.value[1]>>

IsPrefix(s, t) == Len(s) <= Len(t) /\ SubSeq(t, 1, Len(s)) = s

\* The line just read is a row the extractor accepts as a unit: it stands
\* under a header context, has a name, is no parent row and every amount of
\* it parses.
AcceptedRow(st) ==
    /\ st.prev_line # None
    /\ st.prev_line[1].kind = "row"
    /\ st.header_context # None
    /\ parse_row(st.prev_line[1]).name # ""
    /\ ~is_parent_code(st.prev_line[1].code)
    /\ LET amounts == row_amounts(st.header_context[1].labels,
                                  parse_row(st.prev_line[1]).amount_columns,
                                  st.page_index, st.prev_line[1])
       IN  /\ amounts # << >>
           /\ \A i \in 1..Len(amounts) : amounts[i].amount.value # None

\* C2: the output of extract_admin_units never holds two units with the
\* same (table_type, unit_code); the list only grows at its end, so that of
\* the rows of one key the first accepted one is the unit that is kept.
C2_NoDuplicateUnitKeys ==
    /\ [](\A i, j \in 1..Len(adm.admin_units) :
            i # j => UnitKey(adm.admin_units[i]) # UnitKey(adm.admin_units[j]))
    /\ [][/\ IsPrefix(adm.admin_units, adm'.admin_units)
          /\ Len(adm'.admin_units) <= Len(adm.admin_units) + 1]_vars

\* A second row of a key already kept has just been read and accepted, and
\* the unit in the output is still the one of the first row.
C2_Witness ==
    /\ adm.pc = "scan"
    /\ AcceptedRow(adm)
    /\ \E i \in 1..Len(adm.admin_units) :
         /\ UnitKey(adm.admin_units[i]) =
                <<adm.header_context[1].table_type, adm.prev_line[1].code>>
         /\ adm.admin_units[i].line_text # adm.prev_line[1]
         /\ adm.admin_units[i].amounts #
                row_amounts(adm.header_context[1].labels,
                            parse_row(adm.prev_line[1]).amount_columns,
                            adm.page_index, adm.prev_line[1])

\* The parents whose code without its trailing zeros is a non-empty prefix
\* of the unit code.
QualifyingParents(unit_code, parent_codes) ==
    { p \in parent_codes : /\ rstrip0(p) # << >>
                           /\ IsPrefix(rstrip0(p), unit_code) }

\* C15: the parent of an emitted unit is a registered parent whose code
\* without its trailing zeros is a non-empty prefix of the unit code, and no
\* registered parent has a longer such prefix; when no registered parent
\* qualifies, parent_code and parent_name are null with the reason
\* parent_not_found.
C15_ParentIsLongestPrefix ==
    [][Len(adm'.admin_units) > Len(adm.admin_units) =>
          LET unit == adm'.admin_units[Len(adm'.admin_units)]
              P    == { adm.parents[i].key : i \in 1..Len(adm.parents) }
              Q    == QualifyingParents(unit.unit_code.value[1], P)
          IN  IF Q # {}
              THEN /\ unit.parent_code.value # None
                   /\ unit.parent_code.value[1] \in Q
                   /\ \A q \in Q :
                        Len(rstrip0(q)) <= Len(rstrip0(unit.parent_code.value[1]))
              ELSE /\ unit.parent_code.value = None
                   /\ unit.parent_code.reason = Some("parent_not_found")
                   /\ unit.parent_name.value = None
                   /\ unit.parent_name.reason = Some("parent_not_found")]_vars

\* A unit was emitted with the parent of the longer prefix although the
\* parent of the shorter prefix had been registered first.
C15_Witness ==
    /\ Len(adm.parents) = 2
    /\ adm.parents[1].key = ParentTop
    /\ adm.parents[2].key = ParentA
    /\ \E i \in 1..Len(adm.admin_units) :
         /\ adm.admin_units[i].unit_code.value = Some(LeafA)
         /\ adm.admin_units[i].parent_code.value = Some(ParentA)

\* The number of columns parse_amount reads an amount from.
RECURSIVE Parseable(_)
Parseable(amount_columns) ==
    IF amount_columns = << >> THEN 0
    ELSE (IF parse_amount(Head(amount_columns)) # None THEN 1 ELSE 0)
            + Parseable(Tail(amount_columns))

\* This step reads, under a header context, a leaf line with fewer parseable
\* amount columns than the header has labels, or with an amount column that
\* does not parse.
AdminReadsShortRow ==
    /\ adm.pc = "scan" /\ adm'.pc = "scan"
    /\ adm'.nlines = adm.nlines + 1
    /\ adm.header_context # None
    /\ adm'.prev_line[1].kind = "row"
    /\ LET parsed == parse_row(adm'.prev_line[1])
       IN  /\ ~is_parent_code(parsed.code)
           /\ \/ Parseable(parsed.amount_columns) < Len(adm.header_context[1].labels)
              \/ Parseable(parsed.amount_columns) < Len(parsed.amount_columns)

\* C17 as stated: an emitted unit has no null amount and exactly one amount
\* for each label of the header context, in the order of the header; a leaf
\* line with fewer parseable amount columns than the header has labels, or
\* with an amount column that does not parse, adds no unit and changes
\* nothing else of the output.
C17_OneAmountPerLabel ==
    /\ [][(adm.pc = "scan" /\ Len(adm'.admin_units) > Len(adm.admin_units)) =>
            LET unit   == adm'.admin_units[Len(adm'.admin_units)]
                labels == adm.header_context[1].labels
            IN  /\ \A i \in 1..Len(unit.amounts) : unit.amounts[i].amount.value # None
                /\ Len(unit.amounts) = Len(labels)
                /\ \A i \in 1..Len(labels) : unit.amounts[i].label = labels[i]]_vars
    /\ [][AdminReadsShortRow =>
            /\ adm'.admin_units = adm.admin_units
            /\ adm'.parents = adm.parents]_vars

\* C17, amended: an emitted unit has no null amount; its amounts are one
\* for each label of the header context, in the order of the header, and
\* after them one amount labelled amount_N for each amount column beyond the
\* labels. A leaf line with fewer parseable amount columns than the header
\* has labels, or with an amount column that does not parse, adds no unit
\* and changes nothing else of the output.
C17_UnitAmountsComplete ==
    /\ [][(adm.pc = "scan" /\ Len(adm'.admin_units) > Len(adm.admin_units)) =>
            LET unit    == adm'.admin_units[Len(adm'.admin_units)]
                labels  == adm.header_context[1].labels
                columns == parse_row(adm'.prev_line[1]).amount_columns
            IN  /\ \A i \in 1..Len(unit.amounts) : unit.amounts[i].amount.value # None
                /\ Len(unit.amounts) >= Len(labels)
                /\ Len(unit.amounts) = Len(columns)
                /\ \A i \in 1..Len(unit.amounts) :
                     unit.amounts[i].label =
                        IF i <= Len(labels) THEN labels[i] ELSE <<"amount", i>>]_vars
    /\ [][AdminReadsShortRow =>
            /\ adm'.admin_units = adm.admin_units
            /\ adm'.parents = adm.parents]_vars

\* Under a header of five labels a complete row was emitted as a unit, and
\* the row of three amount columns read after it was not.
C17_Witness ==
    /\ adm.pc = "scan"
    /\ adm.header_context # None
    /\ Len(adm.header_context[1].labels) = 5
    /\ adm.prev_line = Some(RowLine(LeafA, "Ministry", << Num(1), Num(2), Num(3) >>))
    /\ Len(adm.admin_units) = 1
    /\ adm.admin_units[1].unit_code.value = Some(LeafX)
    /\ Len(adm.admin_units[1].amounts) = 5

\* The code is six or more digits followed by four or more zeros.
ParentForm(code) ==
    \E zeros \in 4..(Len(code) - 6) :
        \A i \in (Len(code) - zeros + 1)..Len(code) : code[i] = 0

\* This step reads, under a header context, a line with a code of the
\* parent form.
AdminReadsParentRow ==
    /\ adm.pc = "scan" /\ adm'.pc = "scan"
    /\ adm'.nlines = adm.nlines + 1
    /\ adm.header_context # None
    /\ adm'.prev_line[1].kind = "row"
    /\ ParentForm(parse_row(adm'.prev_line[1]).code)

NoUnitOfParentForm ==
    adm.pc # "idle" =>
        \A i \in 1..Len(adm.admin_units) :
            ~ParentForm(adm.admin_units[i].unit_code.value[1])

\* C18 as stated: every line with a code of the parent form read under a
\* header context puts its name under its code in the parents table and adds
\* no unit; no emitted unit has a unit code of the parent form.
C18_EveryParentRowRegistered ==
    /\ []NoUnitOfParentForm
    /\ [][AdminReadsParentRow =>
            /\ DictGet(adm'.parents, parse_row(adm'.prev_line[1]).code)
                  = Some(parse_row(adm'.prev_line[1]).name)
            /\ adm'.admin_units = adm.admin_units]_vars

\* C18, amended: a line with a name and a code of the parent form read
\* under a header context puts its name under its code in the parents table;
\* a line with a code of the parent form, named or not, adds no unit; no
\* emitted unit has a unit code of the parent form.
C18_ParentRowsRegistered ==
    /\ []NoUnitOfParentForm
    /\ [][AdminReadsParentRow =>
            /\ parse_row(adm'.prev_line[1]).name # "" =>
                  DictGet(adm'.parents, parse_row(adm'.prev_line[1]).code)
                      = Some(parse_row(adm'.prev_line[1]).name)
            /\ adm'.admin_units = adm.admin_units]_vars

\* After a unit was emitted, a parent row was read and its code stands in
\* the parents table; the unit list is as it was.
C18_Witness ==
    /\ adm.pc = "scan"
    /\ adm.header_context # None
    /\ adm.prev_line =
          Some(RowLine(ParentA, "Education", << Num(9), Num(9), Num(18), Num(4), Num(22) >>))
    /\ DictGet(adm.parents, ParentA) = Some("Education")
    /\ Len(adm.admin_units) = 1
    /\ adm.admin_units[1].unit_code.value = Some(LeafX)

(* ======================= economic.extract_economic_rows ================ *)
(* A line is a record of what the extractor's tests read from it:          *)
(*   kind   "revenue_heading" (REVENUE_HEADING_RE), "expenditure_heading"  *)
(*          (EXPENDITURE_HEADING_RE), "approved_dash" (holds "Approved     *)
(*          Budget -" and is neither a heading nor a header), "header"     *)
(*          (HEADER_RE), "row" (ECON_CODE_RE) or "text"                    *)
(*   labels the labels the year patterns find in the line, by offset       *)
(*   ctx    whether the line holds one of HEADER_CONTEXT_KEYWORDS          *)
(*   code   the leading digits of a row                                    *)
(*   desc   the text between the code and the first number of a row        *)
(*   nums   the matches of NUM_RE from the first number on                 *)
(* A label "<year>_<kind>" is the record [year, kind].                     *)
(***************************************************************************)

MaxEcoLines == 4

MaxEcoPages == 2

Label(year, kind) == [year |-> year, kind |-> kind]

EconomicContext(table_type, labels) == [table_type |-> table_type, labels |-> labels]

RECURSIVE JoinLabels(_)
JoinLabels(header_lines) ==
    IF header_lines = << >> THEN << >>
    ELSE Head(header_lines).labels \o JoinLabels(Tail(header_lines))

revenue_order ==
    << Label(2024, "approved_budget"), Label(2024, "final_budget"),
       Label(2024, "performance"), Label(2025, "approved_budget") >>

SeqRange(s) == { s[i] : i \in 1..Len(s) }

\* economic.infer_labels: the labels by offset without repetitions; the
\* four labels of revenue_order come first when all of them occur.
econ_infer_labels(header_lines) ==
    LET labels == Dedupe(JoinLabels(header_lines), {})
    IN  IF labels = << >> THEN << >>
        ELSE IF SeqRange(revenue_order) \subseteq SeqRange(labels)
        THEN revenue_order \o
             SelectSeq(labels, LAMBDA item : item \notin SeqRange(revenue_order))
        ELSE labels

econ_is_header_context_line(line) == line.ctx

\* The least of a set of indices, or None.
FirstIndex(hits) ==
    IF hits # {} THEN Some(CHOOSE i \in hits : \A j \in hits : i <= j) ELSE None

BudgetKinds ==
    { "approved_budget", "proposed_budget", "revised_budget", "final_budget",
      "original_budget" }

\* select_target_label without the order approved, proposed, budget
select_target_label_first_budget(labels, target_year) ==
    FirstIndex({ i \in 1..Len(labels) :
                   labels[i].year = target_year /\ labels[i].kind \in BudgetKinds })

\* economic.select_target_label; the index counts from 1.
select_target_label(labels, target_year) ==
    LET approved == { i \in 1..Len(labels) :
                        labels[i].year = target_year /\ labels[i].kind = "approved_budget" }
        proposed == { i \in 1..Len(labels) :
                        labels[i].year = target_year /\ labels[i].kind = "proposed_budget" }
        budget   == { i \in 1..Len(labels) :
                        labels[i].year = target_year /\ labels[i].kind \in BudgetKinds }
    IN  IF approved # {} THEN FirstIndex(approved)
        ELSE IF proposed # {} THEN FirstIndex(proposed)
        ELSE FirstIndex(budget)

\* economic.parse_amount on a raw fragment
econ_parse_amount(raw) ==
    CASE raw.t = "empty" -> None
      [] raw.t = "dash"  -> Some(0)
      [] raw.t = "num"   -> Some(raw.v)
      [] OTHER           -> None

\* economic.parse_row: None when the rest of the line holds no number.
econ_parse_row(line) ==
    IF line.nums = << >> THEN None
    ELSE Some([code |-> line.code, desc |-> line.desc, amount_columns |-> line.nums])

\* lines 256-285: the row is appended to the list of its section.
append_row(st, code, desc, amount_value, line) ==
    LET amount_field == with_value(amount_value, << Provenance(st.page_index, line) >>)
        revenue_row ==
            [code |-> with_value(code, << >>), category |-> with_value(desc, << >>),
             subcategory |-> null("not_extracted"), amount |-> amount_field,
             classification |-> with_value("economic", << >>),
             page |-> st.page_index, line_text |-> line]
        expenditure_row ==
            [code |-> with_value(code, << >>), category |-> with_value(desc, << >>),
             subcategory |-> null("not_extracted"), amount |-> amount_field,
             page |-> st.page_index, line_text |-> line]
    IN  IF st.context[1].table_type = "revenue"
        THEN [st EXCEPT !.revenue_rows = Append(@, revenue_row)]
        ELSE [st EXCEPT !.expenditure_rows = Append(@, expenditure_row)]

\* lines 233-285: a code-prefixed line read in a section under a context.
econ_row(st, line) ==
    LET parsed == econ_parse_row(line)
        target_index == select_target_label(st.context[1].labels, st.target_year)
    IN  IF parsed = None THEN st
        ELSE IF parsed[1].desc = "" \/ ~line.alpha THEN st
        ELSE IF st.context[1].labels = << >> THEN st
        ELSE IF target_index = None THEN st
        ELSE IF target_index[1] > Len(parsed[1].amount_columns) THEN st
        ELSE IF econ_parse_amount(parsed[1].amount_columns[target_index[1]]) = None THEN st
        ELSE append_row(st, parsed[1].code, parsed[1].desc,
                        econ_parse_amount(parsed[1].amount_columns[target_index[1]])[1],
                        line)

\* A header line that does not fall back on the last section.
econ_header_no_last_section(st, line, next_lines) ==
    LET before == IF st.prev_line # None /\ econ_is_header_context_line(st.prev_line[1])
                  THEN << st.prev_line[1] >> ELSE << >>
        after  == SelectSeq(next_lines, econ_is_header_context_line)
        labels == econ_infer_labels(before \o << line >> \o after)
    IN  [st EXCEPT !.context = IF st.current_section # None
                               THEN Some(EconomicContext(st.current_section[1], labels))
                               ELSE @]

\* lines 210-231: a header line, with the line before it and the (at most
\* two) lines after it on the page.
econ_header(st, line, next_lines) ==
    LET current_section == IF st.current_section = None /\ st.last_section # None
                           THEN st.last_section ELSE st.current_section
        before == IF st.prev_line # None /\ econ_is_header_context_line(st.prev_line[1])
                  THEN << st.prev_line[1] >> ELSE << >>
        after  == SelectSeq(next_lines, econ_is_header_context_line)
        labels == econ_infer_labels(before \o << line >> \o after)
    IN  [st EXCEPT !.current_section = current_section,
                   !.context = IF current_section # None
                               THEN Some(EconomicContext(current_section[1], labels))
                               ELSE @]

\* econ_line with headings that leave the header context as it is
econ_line_heading_keeps_context(st, line, next_lines) ==
    LET st2 ==
          IF line.kind = "revenue_heading"
          THEN [st EXCEPT !.current_section = Some("revenue"),
                          !.last_section = Some("revenue")]
          ELSE IF line.kind = "expenditure_heading"
          THEN [st EXCEPT !.current_section = Some("expenditure"),
                          !.last_section = Some("expenditure")]
          ELSE IF line.kind = "approved_dash"
          THEN [st EXCEPT !.current_section = None, !.context = None]
          ELSE IF line.kind = "header" THEN econ_header(st, line, next_lines)
          ELSE IF st.current_section # None /\ st.context # None /\ line.kind = "row"
          THEN econ_row(st, line)
          ELSE st
    IN  [st2 EXCEPT !.prev_line = Some(line)]

\* the body of the while loop, lines 186-287, for one line
econ_line(st, line, next_lines) ==
    LET st2 ==
          IF line.kind = "revenue_heading"
          THEN [st EXCEPT !.current_section = Some("revenue"),
                          !.last_section = Some("revenue"), !.context = None]
          ELSE IF line.kind = "expenditure_heading"
          THEN [st EXCEPT !.current_section = Some("expenditure"),
                          !.last_section = Some("expenditure"), !.context = None]
          ELSE IF line.kind = "approved_dash"
          THEN [st EXCEPT !.current_section = None, !.context = None]
          ELSE IF line.kind = "header" THEN econ_header(st, line, next_lines)
          ELSE IF st.current_section # None /\ st.context # None /\ line.kind = "row"
          THEN econ_row(st, line)
          ELSE st
    IN  [st2 EXCEPT !.prev_line = Some(line)]

EconText(labels, ctx) == [kind |-> "text", labels |-> labels, ctx |-> ctx]

EconHeading(kind) == [kind |-> kind, labels |-> << >>, ctx |-> FALSE]

\* "2025 Approved Budget - ..." outside a heading: it holds "budget".
EconApprovedDash == [kind |-> "approved_dash", labels |-> << >>, ctx |-> TRUE]

EconHeader(labels) == [kind |-> "header", labels |-> labels, ctx |-> labels # << >>]

EconRowLine(code, desc, nums) ==
    [kind |-> "row", code |-> code, desc |-> desc, alpha |-> desc # "",
     nums |-> nums, labels |-> << >>, ctx |-> FALSE]

EcoLines ==
    { EconText(<< >>, FALSE),
      EconText(<< Label(2024, "approved_budget"), Label(2025, "approved_budget") >>, TRUE),
      EconHeading("revenue_heading"), EconHeading("expenditure_heading"),
      EconApprovedDash,
      EconHeader(<< >>),
      EconHeader(<< Label(2024, "approved_budget"), Label(2025, "approved_budget") >>),
      EconHeader(<< Label(2024, "approved_budget") >>),
      EconRowLine(<<2, 2>>, "Personnel", << Num(5), Num(10) >>),
      EconRowLine(<<2, 2>>, "Personnel", << Num(5), Num(11) >>),
      EconRowLine(<<2, 2>>, "Personnel", << Num(5), Num(12) >>),
      EconRowLine(<<2, 2, 0, 1>>, "Salaries", << Num(5), Num(10) >>),
      EconRowLine(<<2, 2>>, "Personnel", << Num(5) >>),
      EconRowLine(<<2, 2>>, "", << Num(5), Num(10) >>) }

EcoStart ==
    [pc |-> "scan", target_year |-> 2025, page_index |-> 0,
     context |-> None, current_section |-> None, last_section |-> None,
     prev_line |-> None, pending |-> << >>, page_ends |-> TRUE, nlines |-> 0,
     revenue_rows |-> << >>, expenditure_rows |-> << >>,
     conflicts |-> << >>, errors |-> << >>]

InitEcon ==
    /\ eco = EcoStart
    /\ val = Idle /\ adm = Idle /\ prg = Idle /\ pipe = Idle /\ ui = Idle

\* The next page begins and the header context of the last page is kept.
EconNextPageKeepContext ==
    /\ eco.pc = "scan"
    /\ eco.pending = << >>
    /\ eco.page_index < MaxEcoPages
    /\ eco' = [eco EXCEPT !.page_index = @ + 1, !.prev_line = None, !.page_ends = FALSE]
    /\ UNCHANGED <<val, adm, prg, pipe, ui>>

\* lines 182-185: the next page begins.
EconNextPage ==
    /\ eco.pc = "scan"
    /\ eco.pending = << >>
    /\ eco.page_index < MaxEcoPages
    /\ eco' = [eco EXCEPT !.page_index = @ + 1, !.context = None,
                          !.prev_line = None, !.page_ends = FALSE]
    /\ UNCHANGED <<val, adm, prg, pipe, ui>>

\* lines 186-287: one line of the page is read, a line of the set lines. A
\* header line fixes the lines it looks ahead at.
EconRead(lines) ==
    /\ eco.pc = "scan"
    /\ eco.page_index >= 1
    /\ eco.nlines < MaxEcoLines
    /\ eco.pending # << >> \/ ~eco.page_ends
    /\ \E line \in (IF eco.pending # << >> THEN { Head(eco.pending) } ELSE lines) :
         LET rest == IF eco.pending # << >> THEN Tail(eco.pending) ELSE << >>
         IN  IF line.kind = "header"
             THEN \E more \in (IF eco.page_ends THEN { << >> }
                               ELSE SeqsUpTo(lines, 2 - Len(rest))) :
                    /\ eco.nlines + 1 + Len(rest \o more) <= MaxEcoLines
                    /\ eco' = [econ_line(eco, line, rest \o more) EXCEPT
                                  !.pending = rest \o more,
                                  !.page_ends = eco.page_ends \/ Len(rest \o more) < 2,
                                  !.nlines = @ + 1]
             ELSE eco' = [econ_line(eco, line, << >>) EXCEPT
                             !.pending = rest, !.nlines = @ + 1]
    /\ UNCHANGED <<val, adm, prg, pipe, ui>>

EconReadLine == EconRead(EcoLines)

\* line 289: the two row lists are returned; nothing else is.
EconReturn ==
    /\ eco.pc = "scan"
    /\ eco.pending = << >>
    /\ eco' = [eco EXCEPT !.pc = "returned"]
    /\ UNCHANGED <<val, adm, prg, pipe, ui>>

\* validation.validate_economic_conflicts
validate_economic_conflicts(conflicts) ==
    [i \in 1..Len(conflicts) |->
        ValidationError("economic_conflicting_code",
                        <<conflicts[i].table_type, conflicts[i].code,
                          conflicts[i].first_amount, conflicts[i].second_amount>>)]

\* pipeline.py 256-270: the caller turns the conflicts of the extraction
\* into errors. The extractor builds no conflict, so the list is the empty
\* one of the start.
EconValidateConflicts ==
    /\ eco.pc = "returned"
    /\ eco' = [eco EXCEPT !.pc = "validated",
                          !.errors = @ \o validate_economic_conflicts(eco.conflicts)]
    /\ UNCHANGED <<val, adm, prg, pipe, ui>>

NextEcon == EconNextPage \/ EconReadLine \/ EconReturn \/ EconValidateConflicts

SpecEcon == InitEcon /\ [][NextEcon]_vars

SectionRows(section) ==
    IF section = "revenue" THEN eco.revenue_rows ELSE eco.expenditure_rows

\* C4: once the run has validated the economic rows, any two rows of one
\* section with the same code have amounts within 1.0 of each other, or the
\* error list holds an economic_conflicting_code error with both amounts.
C4_ConflictReported ==
    eco.pc = "validated" =>
        \A section \in { "revenue", "expenditure" } :
            \A i, j \in 1..Len(SectionRows(section)) :
                LET first  == SectionRows(section)[i]
                    second == SectionRows(section)[j]
                IN  (i < j /\ first.code.value = second.code.value) =>
                      \/ Abs(first.amount.value[1] - second.amount.value[1]) <= 1
                      \/ \E e \in 1..Len(eco.errors) :
                            /\ eco.errors[e].code = "economic_conflicting_code"
                            /\ eco.errors[e].message =
                                 <<section, first.code.value[1],
                                   first.amount.value[1], second.amount.value[1]>>

\* C5: when the extraction returns and two rows were accepted in one
\* section with the same code and amounts more than 1.0 apart, the list of
\* the section holds one row of that code.
C5_FirstRowRetained ==
    eco.pc = "returned" =>
        \A section \in { "revenue", "expenditure" } :
            \A i, j \in 1..Len(SectionRows(section)) :
                LET first  == SectionRows(section)[i]
                    second == SectionRows(section)[j]
                IN  (/\ i < j /\ first.code.value = second.code.value
                     /\ Abs(first.amount.value[1] - second.amount.value[1]) > 1) =>
                      Cardinality({ k \in 1..Len(SectionRows(section)) :
                          SectionRows(section)[k].code.value = first.code.value }) = 1

(* ============== the economic extractor on sections and pages =========== *)

\* "... 2025 Approved Budget - ..." outside a heading: the year pattern
\* finds a label in it.
EconApprovedDashOfYear ==
    [kind |-> "approved_dash", labels |-> << Label(2025, "approved_budget") >>,
     ctx |-> TRUE]

EcoSectionRow == EconRowLine(<<2, 2>>, "Personnel", << Num(5), Num(10) >>)

\* The lines that open and close sections and contexts, and a code row.
EcoSectionLines ==
    { EconText(<< >>, FALSE),
      EconHeading("revenue_heading"), EconHeading("expenditure_heading"),
      EconApprovedDash,
      EconApprovedDashOfYear,
      EconHeader(<< >>),
      EconHeader(<< Label(2024, "approved_budget"), Label(2025, "approved_budget") >>),
      EcoSectionRow }

NextEconSection ==
    EconNextPage \/ EconRead(EcoSectionLines) \/ EconReturn \/ EconValidateConflicts

SpecEconSection == InitEcon /\ [][NextEconSection]_vars

\* The step reads a line of the page.
EconReadsLine == eco.pc = "scan" /\ eco'.pc = "scan" /\ eco'.nlines = eco.nlines + 1

\* The step begins a page.
EconBeginsPage == eco.pc = "scan" /\ eco'.page_index = eco.page_index + 1

\* The step emits a row.
EconEmitsRow ==
    \/ Len(eco'.revenue_rows) > Len(eco.revenue_rows)
    \/ Len(eco'.expenditure_rows) > Len(eco.expenditure_rows)

\* C27: in extract_economic_rows the header context is absent at the start
\* of every page, it becomes present only by reading a 'Code Economic'
\* header, and a row is emitted only under a present context: a code row of
\* a page read before a header of that page is never emitted, also when the
\* page before ended inside a table.
C27_NoRowBeforeHeaderOfPage ==
    [][ /\ EconBeginsPage => eco'.context = None
        /\ (EconReadsLine /\ eco.context = None /\ eco'.context # None) =>
              eco'.prev_line[1].kind = "header"
        /\ EconEmitsRow => eco.context # None
      ]_vars

\* The first page held a revenue heading, a header and a code row that was
\* emitted; the same code row, read as the first line of the second page,
\* was not.
C27_Witness ==
    /\ eco.pc = "scan"
    /\ eco.page_index = 2
    /\ eco.nlines = 4
    /\ eco.prev_line = Some(EcoSectionRow)
    /\ eco.context = None
    /\ eco.current_section = Some("revenue")
    /\ Len(eco.revenue_rows) = 1
    /\ eco.revenue_rows[1].page = 1
    /\ eco.revenue_rows[1].line_text = EcoSectionRow

\* C28: in extract_economic_rows the active section is kept when a page
\* begins; a 'Code Economic' header read while no section is active but one
\* was active earlier makes the last active section active again, with a
\* context of that section; and a row goes to the list of the section that
\* is active when it is read.
C28_SectionSurvivesAndIsReactivated ==
    [][ /\ EconBeginsPage =>
              /\ eco'.current_section = eco.current_section
              /\ eco'.last_section = eco.last_section
        /\ (/\ EconReadsLine
            /\ eco'.prev_line[1].kind = "header"
            /\ eco.current_section = None
            /\ eco.last_section # None) =>
              /\ eco'.current_section = eco.last_section
              /\ eco'.context # None
              /\ eco'.context[1].table_type = eco.last_section[1]
        /\ Len(eco'.revenue_rows) > Len(eco.revenue_rows) =>
              /\ eco.current_section = Some("revenue")
              /\ eco'.expenditure_rows = eco.expenditure_rows
        /\ Len(eco'.expenditure_rows) > Len(eco.expenditure_rows) =>
              /\ eco.current_section = Some("expenditure")
              /\ eco'.revenue_rows = eco.revenue_rows
      ]_vars

\* A revenue heading, a line "2025 Approved Budget - ..." that ended the
\* section, a header without labels of its own and a code row were read:
\* the header took its label from the line before it and made the revenue
\* section active again, and the row went to the revenue list with the
\* amount of its first column.
C28_Witness ==
    /\ eco.pc = "scan"
    /\ eco.nlines = 4
    /\ eco.prev_line = Some(EcoSectionRow)
    /\ eco.current_section = Some("revenue")
    /\ eco.context =
         Some(EconomicContext("revenue", << Label(2025, "approved_budget") >>))
    /\ Len(eco.revenue_rows) = 1
    /\ eco.revenue_rows[1].amount.value = Some(5)
    /\ eco.expenditure_rows = << >>

\* C35: in every state of extract_economic_rows a present header context
\* goes with an active section, and its table_type is that section; no row
\* exists before a 'Revenue/Expenditure by Economic Classification' heading
\* has been read; and a row is put in the list of the section that is
\* active when its line is read.
C35_ContextHasActiveSection ==
    /\ [](eco.context # None =>
            /\ eco.current_section # None
            /\ eco.context[1].table_type = eco.current_section[1])
    /\ [](eco.last_section = None =>
            /\ eco.current_section = None
            /\ eco.revenue_rows = << >> /\ eco.expenditure_rows = << >>)
    /\ [][ /\ Len(eco'.revenue_rows) > Len(eco.revenue_rows) =>
                /\ eco.current_section = Some("revenue")
                /\ eco'.revenue_rows[Len(eco'.revenue_rows)].line_text
                      = eco'.prev_line[1]
           /\ Len(eco'.expenditure_rows) > Len(eco.expenditure_rows) =>
                /\ eco.current_section = Some("expenditure")
                /\ eco'.expenditure_rows[Len(eco'.expenditure_rows)].line_text
                      = eco'.prev_line[1]
         ]_vars

\* Four lines were read, the last a code row: the context is one of the
\* expenditure section, which is active, and the row is in the expenditure
\* list.
C35_Witness ==
    /\ eco.pc = "scan"
    /\ eco.nlines = 4
    /\ eco.prev_line = Some(EcoSectionRow)
    /\ eco.current_section = Some("expenditure")
    /\ eco.context # None
    /\ eco.context[1].table_type = "expenditure"
    /\ Len(eco.expenditure_rows) = 1
    /\ eco.expenditure_rows[1].line_text = EcoSectionRow
    /\ eco.revenue_rows = << >>

(* ============== programme_projects.extract_programme_projects ========== *)
(* A line is a record of what the extractor's tests read from it:          *)
(*   kind     "header" (PROGRAM_HEADER_RE and PROJECT_HEADER_RE), "blank", *)
(*            "total" or "data"                                            *)
(*   labels   the labels the year patterns find in the line, by offset     *)
(*   ctx      whether the line holds one of HEADER_CONTEXT_KEYWORDS        *)
(*   fund     whether a column of a header matches FUND_HEADER_RE          *)
(*   tag      "sector" / "objective": a digit-free short label with that   *)
(*            word; "objective_column": only its first column is one       *)
(*   trailing whether white space follows the last column                  *)
(*   columns  split_columns(line), each column a raw fragment; the         *)
(*            fragment "<digits> - <desc>" is [t |-> "code", digits, desc] *)
(* A text is the sequence of its non-empty parts; "" is << >>.             *)
(***************************************************************************)

MaxPrgLines == 5

MaxPrgPages == 2

Code(digits, desc) == [t |-> "code", digits |-> digits, desc |-> desc]

\* The code lengths the column patterns accept.
PROGRAM_CODE_RE == 11..14

ECON_COL_RE == { 8 }

FUNC_COL_RE == { 5 }

FUND_COL_RE == 2..8

LOC_COL_RE == { 8 }

\* programme_projects.parse_code_desc on a column ("" is Empty)
parse_code_desc(value, pattern) ==
    IF value.t = "code" /\ Len(value.digits) \in pattern /\ value.desc # ""
    THEN Some([code |-> value.digits, desc |-> value.desc])
    ELSE None

\* The text of a column as part of a longer text.
ColumnText(col) ==
    CASE col.t = "txt"  -> col.s
      [] col.t = "code" -> col.desc
      [] OTHER          -> "(number)"

NonEmpty(parts) == SelectSeq(parts, LAMBDA part : part # "")

\* programme_projects.parse_program_line on the whole line: the description
\* is all that follows the dash.
parse_program_line(line) ==
    IF /\ line.columns # << >>
       /\ line.columns[1].t = "code"
       /\ Len(line.columns[1].digits) \in PROGRAM_CODE_RE
       /\ (line.columns[1].desc # "" \/ Len(line.columns) > 1 \/ line.trailing)
    THEN Some([code |-> line.columns[1].digits,
               desc |-> NonEmpty([i \in 1..Len(line.columns) |->
                                     ColumnText(line.columns[i])])])
    ELSE None

\* programme_projects.infer_labels
prog_infer_labels(header_lines) == Dedupe(JoinLabels(header_lines), {})

prog_is_header_context_line(line) == line.ctx

\* lines 111-133: the header line of a table
prog_header(st, line, next_lines) ==
    LET before == IF st.prev_line # None /\ prog_is_header_context_line(st.prev_line[1])
                  THEN << st.prev_line[1] >> ELSE << >>
        after  == SelectSeq(next_lines, prog_is_header_context_line)
        labels == prog_infer_labels(before \o << line >> \o after)
    IN  [st EXCEPT !.labels = labels,
                   !.target_index = select_target_label(labels, st.target_year),
                   !.has_fund_column = line.fund,
                   !.current_program_code = None,
                   !.current_program_desc = << >>,
                   !.program_continuation = << >>,
                   !.project_buffer = << >>,
                   !.current_sector = None,
                   !.current_objective = None]

\* The index of the first column that ECON_COL_RE matches, or None.
econ_index_of(columns) ==
    FirstIndex({ i \in 1..Len(columns) : parse_code_desc(columns[i], ECON_COL_RE) # None })

\* lines 169-187: a line that starts with a programme code
prog_program_line(st, line, program_line, econ_index) ==
    LET columns == line.columns
        parsed  == parse_code_desc(columns[1], PROGRAM_CODE_RE)
        chosen  == IF (Len(columns) > 1 \/ line.trailing) /\ parsed # None
                   THEN [code |-> parsed[1].code, desc |-> << parsed[1].desc >>]
                   ELSE program_line
        project == IF Len(columns) > 1
                   THEN IF econ_index = None
                        THEN << ColumnText(columns[2]) >>
                        ELSE [i \in 1..(econ_index[1] - 2) |-> ColumnText(columns[i + 1])]
                   ELSE << >>
    IN  [st EXCEPT !.current_program_code = Some(chosen.code),
                   !.current_program_desc = chosen.desc,
                   !.program_continuation = << >>,
                   !.project_buffer = project]

\* lines 191-204: a line with neither a programme code nor an economic column
prog_continuation(st, line) ==
    LET columns == line.columns
        st2 == IF st.current_program_code = None THEN st
               ELSE IF Len(columns) >= 2
               THEN [st EXCEPT !.program_continuation = Append(@, ColumnText(columns[1])),
                               !.project_buffer = Append(@, ColumnText(columns[2]))]
               ELSE IF st.project_buffer = << >>
               THEN [st EXCEPT !.program_continuation = Append(@, ColumnText(columns[1]))]
               ELSE [st EXCEPT !.project_buffer = Append(@, ColumnText(columns[1]))]
    IN  IF st.current_program_code # None /\ line.tag \in { "objective", "objective_column" }
        THEN [st2 EXCEPT !.current_objective = Some(ColumnText(columns[1]))]
        ELSE st2

ColumnAt(columns, i) == IF i <= Len(columns) THEN columns[i] ELSE Empty

\* lines 243-255: the amount items of the row, or None when an amount
\* column does not parse.
prog_amounts(st, amount_cols, line) ==
    LET labels_for_row == IF Len(amount_cols) # Len(st.labels)
                          THEN [i \in 1..Len(amount_cols) |-> <<"amount", i>>]
                          ELSE st.labels
    IN  IF \E i \in 1..Len(labels_for_row) : econ_parse_amount(amount_cols[i]) = None
        THEN None
        ELSE Some([i \in 1..Len(labels_for_row) |->
                     [label  |-> labels_for_row[i],
                      amount |-> with_value(econ_parse_amount(amount_cols[i])[1],
                                            << Provenance(st.page_index, line) >>)]])

\* FUNC_COL_RE without the bound on the number of digits
parse_function_column_any_length(func_col) ==
    IF func_col.t = "code" /\ func_col.desc # ""
    THEN Some([code |-> func_col.digits, desc |-> func_col.desc])
    ELSE None

\* line 224: parse_code_desc(func_col, FUNC_COL_RE)
parse_function_column(func_col) == parse_code_desc(func_col, FUNC_COL_RE)

\* The row is appended and the carried programme is kept.
after_row_keep_programme(st, row) == [st EXCEPT !.rows = Append(@, row)]

\* lines 274-339: the row is appended and the carried programme is cleared
after_row(st, row) ==
    [st EXCEPT !.rows = Append(@, row),
               !.current_program_code = None,
               !.current_program_desc = << >>,
               !.program_continuation = << >>,
               !.project_buffer = << >>]

\* The line is passed over and the carried programme and project dropped.
reject_row_drops_programme(st) ==
    [st EXCEPT !.current_program_code = None,
               !.current_program_desc = << >>,
               !.program_continuation = << >>,
               !.project_buffer = << >>]

\* lines 233-238, 262-264, 270-272: the line is passed over (line_index += 1;
\* continue) and nothing else is assigned.
reject_row(st) == st

\* lines 210-339: a line with an economic column
prog_row(st, line, econ_index) ==
    LET columns  == line.columns
        e        == econ_index[1]
        econ_col == columns[e]
        func_col == ColumnAt(columns, e + 1)
        fund_col == IF st.has_fund_column THEN ColumnAt(columns, e + 2) ELSE Empty
        loc_col  == IF st.has_fund_column THEN ColumnAt(columns, e + 3)
                    ELSE ColumnAt(columns, e + 2)
        first_amount == IF st.has_fund_column THEN e + 4 ELSE e + 3
        amount_cols  == IF first_amount <= Len(columns)
                        THEN SubSeq(columns, first_amount, Len(columns)) ELSE << >>
        econ_parsed == parse_code_desc(econ_col, ECON_COL_RE)
        func_parsed == parse_function_column(func_col)
        loc_parsed  == parse_code_desc(loc_col, LOC_COL_RE)
        fund_parsed == IF st.has_fund_column THEN parse_code_desc(fund_col, FUND_COL_RE)
                       ELSE None
        use_target   == Len(amount_cols) = Len(st.labels)
        amounts      == prog_amounts(st, amount_cols, line)
        program_desc == NonEmpty(st.current_program_desc \o st.program_continuation)
        project_desc == NonEmpty(st.project_buffer)
        here         == << Provenance(st.page_index, line) >>
        row ==
            [sector     |-> IF st.current_sector # None
                            THEN with_value(st.current_sector[1], here)
                            ELSE null("not_extracted"),
             objective  |-> IF st.current_objective # None
                            THEN with_value(st.current_objective[1], here)
                            ELSE null("not_extracted"),
             programme_code       |-> with_value(st.current_program_code[1], << >>),
             programme            |-> with_value(program_desc, << >>),
             project_name         |-> with_value(project_desc, << >>),
             economic_code        |-> with_value(econ_parsed[1].code, << >>),
             economic_description |-> with_value(econ_parsed[1].desc, << >>),
             function_code        |-> with_value(func_parsed[1].code, << >>),
             function_description |-> with_value(func_parsed[1].desc, << >>),
             location_code        |-> with_value(loc_parsed[1].code, << >>),
             location_description |-> with_value(loc_parsed[1].desc, << >>),
             amounts       |-> amounts[1],
             amount_labels |-> [i \in 1..Len(amounts[1]) |-> amounts[1][i].label],
             amount        |-> IF use_target /\ st.target_index[1] <= Len(amounts[1])
                               THEN with_value(amounts[1][st.target_index[1]].amount.value[1],
                                               here)
                               ELSE null("not_extracted"),
             funding_source |-> IF fund_parsed # None
                                THEN with_value(<<fund_parsed[1].code, fund_parsed[1].desc>>,
                                                here)
                                ELSE null("not_extracted"),
             page      |-> st.page_index,
             line_text |-> line]
    IN  IF st.current_program_code = None THEN st
        ELSE IF econ_parsed = None \/ func_parsed = None \/ loc_parsed = None
        THEN reject_row(st)
        ELSE IF st.has_fund_column /\ fund_parsed = None THEN reject_row(st)
        ELSE IF amounts = None THEN reject_row(st)
        ELSE IF program_desc = << >> \/ project_desc = << >> THEN reject_row(st)
        ELSE after_row(st, row)

\* the body of the while loop, lines 108-341, for one line
prog_line(st, line, next_lines) ==
    LET program_line == parse_program_line(line)
        econ_index   == econ_index_of(line.columns)
        st2 ==
          IF line.kind = "header" THEN prog_header(st, line, next_lines)
          ELSE IF st.labels = << >> \/ st.target_index = None THEN st
          ELSE IF line.kind \in { "blank", "total" } THEN st
          ELSE IF line.tag = "sector"
          THEN [st EXCEPT !.current_sector = Some(ColumnText(line.columns[1]))]
          ELSE IF line.tag = "objective"
          THEN [st EXCEPT !.current_objective = Some(ColumnText(line.columns[1]))]
          ELSE IF program_line # None
          THEN IF econ_index = None
               THEN prog_program_line(st, line, program_line[1], econ_index)
               ELSE prog_row(prog_program_line(st, line, program_line[1], econ_index),
                             line, econ_index)
          ELSE IF econ_index = None THEN prog_continuation(st, line)
          ELSE prog_row(st, line, econ_index)
    IN  [st2 EXCEPT !.prev_line = Some(line)]

PrgLine(kind, labels, ctx, fund, tag, columns) ==
    [kind |-> kind, labels |-> labels, ctx |-> ctx, fund |-> fund, tag |-> tag,
     trailing |-> FALSE, columns |-> columns]

PrgData(columns) == PrgLine("data", << >>, FALSE, FALSE, "none", columns)

PrgLabels == << Label(2024, "revised_budget"), Label(2025, "approved_budget") >>

ProgCode == <<1, 2, 3, 4, 5, 6, 7, 8, 9, 0, 1>>

EconCol == Code(<<2, 3, 0, 1, 0, 1, 0, 1>>, "Construction")

FuncCol == Code(<<7, 0, 4, 5, 1>>, "Road Transport")

FundCol == Code(<<0, 2>>, "Capital Fund")

LocCol == Code(<<1, 2, 3, 4, 5, 6, 7, 8>>, "Yola")

\* a seven-digit code, where a function or location code is expected
ShortCol == Code(<<1, 2, 3, 4, 5, 6, 7>>, "Town")

PrgLines ==
    { PrgLine("header", PrgLabels, TRUE, FALSE, "none", << Txt("Programme Code") >>),
      PrgLine("header", PrgLabels, TRUE, TRUE, "none", << Txt("Programme Code") >>),
      PrgLine("header", << >>, FALSE, FALSE, "none", << Txt("Programme Code") >>),
      PrgLine("blank", << >>, FALSE, FALSE, "none", << >>),
      PrgLine("total", << >>, FALSE, FALSE, "none", << Txt("Total") >>),
      PrgLine("data", << >>, FALSE, FALSE, "sector", << Txt("Works Sector") >>),
      PrgLine("data", << >>, FALSE, FALSE, "objective", << Txt("Objective One") >>),
      PrgData(<< Code(ProgCode, "Roads") >>),
      PrgData(<< Code(ProgCode, "Roads"), Txt("Build road") >>),
      [PrgData(<< Code(ProgCode, "") >>) EXCEPT !.trailing = TRUE],
      PrgData(<< Code(ProgCode, "Roads"), Txt("Build road"), EconCol, FuncCol, LocCol,
                 Num(1), Num(2) >>),
      PrgData(<< Txt("and bridges"), Txt("phase two") >>),
      PrgData(<< EconCol, FuncCol, LocCol, Num(1), Num(2) >>),
      PrgData(<< EconCol, FuncCol, FundCol, LocCol, Num(1), Dash >>),
      PrgData(<< EconCol, ShortCol, LocCol, Num(1), Num(2) >>),
      PrgData(<< EconCol, FuncCol, ShortCol, Num(1), Num(2) >>),
      PrgData(<< EconCol, FuncCol, LocCol, Num(1), Txt("n/a") >>),
      PrgData(<< EconCol, FuncCol, LocCol, Num(1) >>),
      PrgData(<< EconCol, FuncCol, LocCol >>) }

PrgStart ==
    [pc |-> "scan", target_year |-> 2025, page_index |-> 0,
     current_program_code |-> None, current_program_desc |-> << >>,
     program_continuation |-> << >>, project_buffer |-> << >>,
     labels |-> << >>, target_index |-> None, has_fund_column |-> FALSE,
     current_sector |-> None, current_objective |-> None,
     prev_line |-> None, pending |-> << >>, page_ends |-> TRUE, nlines |-> 0,
     rows |-> << >>]

InitProg ==
    /\ prg = PrgStart
    /\ val = Idle /\ adm = Idle /\ eco = Idle /\ pipe = Idle /\ ui = Idle

\* lines 106-108: the next page begins; the parser state is carried over.
ProgNextPage ==
    /\ prg.pc = "scan"
    /\ prg.pending = << >>
    /\ prg.page_index < MaxPrgPages
    /\ prg' = [prg EXCEPT !.page_index = @ + 1, !.prev_line = None, !.page_ends = FALSE]
    /\ UNCHANGED <<val, adm, eco, pipe, ui>>

\* lines 109-341: one line of the page is read, a line of the set lines. A
\* header line fixes the lines it looks ahead at.
ProgRead(lines) ==
    /\ prg.pc = "scan"
    /\ prg.page_index >= 1
    /\ prg.nlines < MaxPrgLines
    /\ prg.pending # << >> \/ ~prg.page_ends
    /\ \E line \in (IF prg.pending # << >> THEN { Head(prg.pending) } ELSE lines) :
         LET rest == IF prg.pending # << >> THEN Tail(prg.pending) ELSE << >>
         IN  IF line.kind = "header"
             THEN \E more \in (IF prg.page_ends THEN { << >> }
                               ELSE SeqsUpTo(lines, 2 - Len(rest))) :
                    /\ prg.nlines + 1 + Len(rest \o more) <= MaxPrgLines
                    /\ prg' = [prog_line(prg, line, rest \o more) EXCEPT
                                  !.pending = rest \o more,
                                  !.page_ends = prg.page_ends \/ Len(rest \o more) < 2,
                                  !.nlines = @ + 1]
             ELSE prg' = [prog_line(prg, line, << >>) EXCEPT
                             !.pending = rest, !.nlines = @ + 1]
    /\ UNCHANGED <<val, adm, eco, pipe, ui>>

ProgReadLine == ProgRead(PrgLines)

\* line 343
ProgReturn ==
    /\ prg.pc = "scan"
    /\ prg.pending = << >>
    /\ prg' = [prg EXCEPT !.pc = "done"]
    /\ UNCHANGED <<val, adm, eco, pipe, ui>>

NextProg == ProgNextPage \/ ProgReadLine \/ ProgReturn

SpecProg == InitProg /\ [][NextProg]_vars

\* The checks of a row: the lengths of its codes, its descriptions and amounts.
C6_RowComplete(row) ==
    /\ row.programme_code.value # None
    /\ Len(row.programme_code.value[1]) \in 11..14
    /\ row.programme.value # None /\ row.programme.value[1] # << >>
    /\ row.project_name.value # None /\ row.project_name.value[1] # << >>
    /\ row.economic_code.value # None /\ Len(row.economic_code.value[1]) = 8
    /\ row.function_code.value # None /\ Len(row.function_code.value[1]) = 5
    /\ row.location_code.value # None /\ Len(row.location_code.value[1]) = 8
    /\ \A i \in 1..Len(row.amounts) : row.amounts[i].amount.value # None

\* C6: every programme row the extractor has emitted has a programme code of
\* 11 to 14 digits, a programme and a project description that are not
\* empty, an economic code of 8, a function code of 5 and a location code of
\* 8 digits, and no null amount among its amounts; each line read adds at
\* most one row and no row is changed afterwards.
C6_EmittedRowsComplete ==
    /\ [](\A i \in 1..Len(prg.rows) : C6_RowComplete(prg.rows[i]))
    /\ [][/\ IsPrefix(prg.rows, prg'.rows)
          /\ Len(prg'.rows) <= Len(prg.rows) + 1]_vars

\* A row has been emitted from a programme line, a continuation line and a
\* line of codes, and a later line of codes with a seven-digit function code
\* has been read and has added nothing.
C6_Witness ==
    /\ Len(prg.rows) = 1
    /\ prg.rows[1].programme.value[1] = << "Roads", "and bridges" >>
    /\ Len(prg.rows[1].amounts) = 2
    /\ prg.prev_line # None
    /\ prg.prev_line[1].kind = "data"
    /\ prg.prev_line[1] # prg.rows[1].line_text
    /\ econ_index_of(prg.prev_line[1].columns) # None

(* ============================ pipeline.run_pipeline ==================== *)
(* The run is followed from stage to stage (pipe.pc). The content of the   *)
(* document is not followed here: each validator called on extracted rows  *)
(* answers with any sublist of the errors it can raise, and the pages hold *)
(* either no table, so that each extractor returns no row, or tables that  *)
(* give each extractor one row (pipe.tables). pipe.ran holds the names of  *)
(* the functions called so far. The file name is the year and the state    *)
(* prefix read from it; a name is a sequence of words.                     *)
(***************************************************************************)

ExtractionError(code, message) == [code |-> code, message |-> message]

\* The errors of a validator, turned into ExtractionErrors (the generator
\* expressions of run_pipeline).
AsExtractionErrors(errs) ==
    [i \in 1..Len(errs) |-> ExtractionError(errs[i].code, errs[i].message)]

\* validation.validate_page_count
validate_page_count(expected, extracted) ==
    IF expected <= 0
    THEN << ValidationError("pdfinfo_failed", "page count unavailable") >>
    ELSE IF extracted <= 0
    THEN << ValidationError("text_extraction_failed", "no pages extracted") >>
    ELSE IF Abs(expected - extracted) > 2
    THEN << ValidationError("page_count_mismatch", <<expected, extracted>>) >>
    ELSE << >>

\* `a in b` on names: the words of a stand together in b.
NameIn(a, b) ==
    \E k \in 0..(Len(b) - Len(a)) : SubSeq(b, k + 1, k + Len(a)) = a

\* metadata.extract_metadata, as far as the year and the state go: both
\* come from the title line, else from the file name.
extract_metadata(file, title) ==
    [budget_year |-> IF title.year # None THEN with_value(title.year[1], << "title" >>)
                     ELSE IF file.year # None
                     THEN [value |-> file.year, reason |-> Some("from_filename"),
                           provenance |-> << >>]
                     ELSE null("not_extracted"),
     state_name  |-> IF title.state # None THEN with_value(title.state[1], << "title" >>)
                     ELSE IF file.state # None
                     THEN [value |-> file.state, reason |-> Some("from_filename"),
                           provenance |-> << >>]
                     ELSE null("not_extracted")]

\* validation.validate_metadata_consistency
validate_metadata_consistency(metadata, file) ==
    (IF /\ file.year # None /\ metadata.budget_year.value # None
        /\ file.year # metadata.budget_year.value
     THEN << ValidationError("metadata_year_mismatch",
                             <<file.year[1], metadata.budget_year.value[1]>>) >>
     ELSE << >>)
    \o
    (IF /\ file.state # None /\ metadata.state_name.value # None
        /\ ~NameIn(file.state[1], metadata.state_name.value[1])
        /\ ~NameIn(metadata.state_name.value[1], file.state[1])
     THEN << ValidationError("metadata_state_mismatch",
                             <<file.state[1], metadata.state_name.value[1]>>) >>
     ELSE << >>)

\* pipeline.build_default_result: the status of the result, line 83
build_default_result_status(errors) == IF errors # << >> THEN "failed" ELSE "ok"

\* The answers of a validator that can raise the errors of codes: the
\* sublists of codes, each as an error.
RECURSIVE Sublists(_)
Sublists(codes) ==
    IF codes = << >> THEN { << >> }
    ELSE LET rest == Sublists(Tail(codes))
         IN  rest \cup { << ValidationError(Head(codes), "") >> \o r : r \in rest }

PipeFiles ==
    { [year |-> Some(2025), state |-> Some(<< "adamawa" >>)],
      [year |-> Some(2025), state |-> None],
      [year |-> None, state |-> None] }

PipeTitles ==
    { [year |-> None, state |-> None],
      [year |-> Some(2025), state |-> Some(<< "adamawa" >>)],
      [year |-> Some(2024), state |-> Some(<< "adamawa" >>)],
      [year |-> Some(2025), state |-> Some(<< "kano" >>)] }

PageCounts == { 0, 1, 4 }

\* pipeline.build_default_result, lines 68-75, and the `totals` that
\* summary.extract_budget_summary starts from: no total is extracted.
DefaultBudgetTotals ==
    [total_budget                |-> null("not_extracted"),
     capital_expenditure_total   |-> null("not_extracted"),
     recurrent_expenditure_total |-> null("not_extracted"),
     revenue_total               |-> null("not_extracted"),
     financing_total             |-> null("not_extracted"),
     budget_summary_text         |-> null("not_extracted")]

\* What extract_budget_summary returns: the totals it started from, or
\* totals with the values of a summary table.
PipeTotals ==
    { DefaultBudgetTotals,
      [DefaultBudgetTotals EXCEPT
          !.total_budget = with_value(5, << "summary" >>),
          !.capital_expenditure_total = with_value(2, << "summary" >>),
          !.recurrent_expenditure_total = with_value(3, << "summary" >>),
          !.revenue_total = with_value(5, << "summary" >>)] }

\* The rows an extractor returns for the pages.
PipeRows(tables) == IF tables THEN << "row" >> ELSE << >>

PipeStart ==
    [pc |-> "start", file |-> None, target_year |-> None, errors |-> << >>,
     page_count |-> 0, text_exists |-> FALSE, metadata_fields |-> None,
     budget_totals |-> None, status |-> None, output |-> None, raised |-> None,
     ran |-> {}, tables |-> FALSE, admin_units |-> << >>, mda_rows |-> << >>, revenue_rows |-> << >>,
     expenditure_rows |-> << >>, programme_rows |-> << >>, receipt_rows |-> << >>]

InitPipe ==
    /\ pipe = PipeStart
    /\ val = Idle /\ adm = Idle /\ eco = Idle /\ prg = Idle /\ ui = Idle

\* lines 151-177: the checks on the paths, and the year of the file name
RunPipelineEnter ==
    /\ pipe.pc = "start"
    /\ \E file \in PipeFiles, pdf_exists, dir_not_empty, overwrite \in BOOLEAN :
         pipe' = IF ~pdf_exists
                 THEN [pipe EXCEPT !.pc = "raised", !.raised = Some("FileNotFoundError")]
                 ELSE IF dir_not_empty /\ ~overwrite
                 THEN [pipe EXCEPT !.pc = "raised", !.raised = Some("FileExistsError")]
                 ELSE [pipe EXCEPT !.pc = "page_count", !.file = Some(file),
                                   !.target_year = file.year,
                                   !.text_exists = dir_not_empty]
    /\ UNCHANGED <<val, adm, eco, prg, ui>>

\* lines 179-184: pdfinfo. utils.run_command starts it with subprocess.run,
\* which raises when the program is not installed.
PipeGetPageCount ==
    /\ pipe.pc = "page_count"
    /\ \E installed, page_error \in BOOLEAN, count \in PageCounts :
         pipe' = IF ~installed
                 THEN [pipe EXCEPT !.pc = "raised", !.raised = Some("FileNotFoundError")]
                 ELSE IF page_error
                 THEN [pipe EXCEPT !.pc = "fulltext", !.page_count = 0,
                           !.ran = @ \cup { "get_page_count" },
                           !.errors = Append(@, ExtractionError("pdfinfo_failed", "stderr"))]
                 ELSE [pipe EXCEPT !.pc = "fulltext", !.page_count = count,
                                   !.ran = @ \cup { "get_page_count" }]
    /\ UNCHANGED <<val, adm, eco, prg, ui>>

\* lines 186-196: pdftotext, unless a text.txt with content is there
PipeExtractFulltext ==
    /\ pipe.pc = "fulltext"
    /\ IF pipe.errors # << >>
       THEN pipe' = [pipe EXCEPT !.pc = "pages"]
       ELSE \E text_has_content, installed, extract_error \in BOOLEAN :
              pipe' = IF pipe.text_exists /\ text_has_content
                      THEN [pipe EXCEPT !.pc = "pages"]
                      ELSE IF ~installed
                      THEN [pipe EXCEPT !.pc = "raised",
                                !.raised = Some("FileNotFoundError")]
                      ELSE IF extract_error
                      THEN [pipe EXCEPT !.pc = "pages",
                                !.ran = @ \cup { "extract_fulltext" },
                                !.errors = Append(@, ExtractionError("pdftotext_failed",
                                                                     "stderr"))]
                      ELSE [pipe EXCEPT !.pc = "pages", !.text_exists = TRUE,
                                        !.ran = @ \cup { "extract_fulltext" }]
    /\ UNCHANGED <<val, adm, eco, prg, ui>>

\* The pages are split and counted and the metadata extracted whenever a
\* text.txt is there, also after an error.
PipePagesAndMetadataAfterError ==
    /\ pipe.pc = "pages"
    /\ IF ~pipe.text_exists
       THEN pipe' = [pipe EXCEPT !.pc = "build"]
       ELSE \E extracted \in PageCounts, title \in PipeTitles, tables \in BOOLEAN :
              pipe' = [pipe EXCEPT
                          !.pc = "admin",
                          !.tables = tables,
                          !.ran = @ \cup { "split_pages", "validate_page_count",
                                           "extract_metadata" },
                          !.errors = @ \o AsExtractionErrors(
                                            validate_page_count(pipe.page_count, extracted)),
                          !.metadata_fields = Some(extract_metadata(pipe.file[1], title))]
    /\ UNCHANGED <<val, adm, eco, prg, ui>>

\* lines 210-237: the pages are split and counted, the metadata extracted;
\* skipped altogether (as all up to line 312) after an error or without text
PipePagesAndMetadata ==
    /\ pipe.pc = "pages"
    /\ IF pipe.errors # << >> \/ ~pipe.text_exists
       THEN pipe' = [pipe EXCEPT !.pc = "build"]
       ELSE \E extracted \in PageCounts, title \in PipeTitles, tables \in BOOLEAN :
              pipe' = [pipe EXCEPT
                          !.pc = "admin",
                          !.tables = tables,
                          !.ran = @ \cup { "split_pages", "validate_page_count",
                                           "extract_metadata" },
                          !.errors = @ \o AsExtractionErrors(
                                            validate_page_count(pipe.page_count, extracted)),
                          !.metadata_fields = Some(extract_metadata(pipe.file[1], title))]
    /\ UNCHANGED <<val, adm, eco, prg, ui>>

\* PipeAdminUnits going on to the economic stage whatever the target year
PipeAdminUnitsAnyYear ==
    /\ pipe.pc = "admin"
    /\ \E mda \in Sublists(<< "mda_reconciliation_failed" >>) :
         pipe' = [pipe EXCEPT
                     !.pc = "economic",
                     !.ran = @ \cup { "extract_admin_units", "validate_admin_unit_codes",
                                      "validate_mda_reconciliation", "build_mda_groups" },
                     !.admin_units = PipeRows(pipe.tables),
                     !.mda_rows = PipeRows(pipe.tables),
                     !.errors = @ \o AsExtractionErrors(mda)]
    /\ UNCHANGED <<val, adm, eco, prg, ui>>

\* lines 239-249: administrative units and their two validators; the units
\* of the extractor hold no key twice, so that validate_admin_unit_codes
\* gives no error on them. Line 251: the stages of the target year follow
\* only when the file name gave one.
PipeAdminUnits ==
    /\ pipe.pc = "admin"
    /\ \E mda \in Sublists(<< "mda_reconciliation_failed" >>) :
         pipe' = [pipe EXCEPT
                     !.pc = IF pipe.target_year # None THEN "economic" ELSE "build",
                     !.ran = @ \cup { "extract_admin_units", "validate_admin_unit_codes",
                                      "validate_mda_reconciliation", "build_mda_groups" },
                     !.admin_units = PipeRows(pipe.tables),
                     !.mda_rows = PipeRows(pipe.tables),
                     !.errors = @ \o AsExtractionErrors(mda)]
    /\ UNCHANGED <<val, adm, eco, prg, ui>>

\* lines 251-274: economic rows and their validators; the extractor hands
\* over no conflict (see EconValidateConflicts) and no row without an
\* amount, so that validate_economic_rows gives no error.
PipeEconomic ==
    /\ pipe.pc = "economic"
    /\ \E dupes \in Sublists(<< "economic_duplicate_code" >>),
          hierarchy \in Sublists(<< "economic_reconciliation_failed" >>) :
         pipe' = [pipe EXCEPT
                     !.pc = "programme",
                     !.ran = @ \cup { "extract_economic_rows", "validate_economic_rows",
                                      "validate_economic_duplicates",
                                      "validate_economic_conflicts",
                                      "validate_economic_hierarchy" },
                     !.revenue_rows = PipeRows(pipe.tables),
                     !.expenditure_rows = PipeRows(pipe.tables),
                     !.errors = @ \o AsExtractionErrors(dupes)
                                  \o AsExtractionErrors(validate_economic_conflicts(<< >>))
                                  \o AsExtractionErrors(hierarchy)]
    /\ UNCHANGED <<val, adm, eco, prg, ui>>

\* lines 275-312: summary, programme, receipt and functional extraction,
\* the programme validator (no error, as every amount item of a row of the
\* extractor has a value) and the two validators of the totals:
\* extract_budget_summary returns totals on every path, so that the test
\* of line 299 holds; totals without values give neither validator an
\* error.
PipeProgrammeAndTotals ==
    /\ pipe.pc = "programme"
    /\ \E totals \in PipeTotals,
          components \in Sublists(<< "budget_totals_mismatch" >>),
          global \in Sublists(<< "global_expenditure_mismatch", "global_mda_mismatch",
                                 "global_programme_mismatch", "global_revenue_mismatch" >>) :
         /\ totals = DefaultBudgetTotals => components = << >> /\ global = << >>
         /\ ~pipe.tables => global = << >>
         /\ pipe' = [pipe EXCEPT
                        !.pc = "build",
                        !.ran = @ \cup { "extract_budget_summary",
                                         "extract_programme_projects", "extract_receipts",
                                         "extract_functional_classification",
                                         "validate_programme_rows",
                                         "validate_budget_components",
                                         "validate_global_reconciliation" },
                        !.programme_rows = PipeRows(pipe.tables),
                        !.receipt_rows = PipeRows(pipe.tables),
                        !.budget_totals = Some(totals),
                        !.errors = @ \o AsExtractionErrors(components)
                                     \o AsExtractionErrors(global)]
    /\ UNCHANGED <<val, adm, eco, prg, ui>>

\* PipeBuildResult with the errors of the metadata check put in front of
\* the list instead of behind it
PipeBuildResultMetadataFirst ==
    /\ pipe.pc = "build"
    /\ pipe' = [pipe EXCEPT
                   !.pc = "write",
                   !.status = Some(build_default_result_status(pipe.errors)),
                   !.ran = IF pipe.metadata_fields # None
                           THEN @ \cup { "validate_metadata_consistency" } ELSE @,
                   !.errors = IF pipe.metadata_fields # None
                              THEN AsExtractionErrors(
                                       validate_metadata_consistency(
                                           pipe.metadata_fields[1], pipe.file[1])) \o @
                              ELSE @]
    /\ UNCHANGED <<val, adm, eco, prg, ui>>

\* lines 314-324: the result is built, its status fixed from the errors so
\* far (line 83), and the errors of the metadata check join the same list.
PipeBuildResult ==
    /\ pipe.pc = "build"
    /\ pipe' = [pipe EXCEPT
                   !.pc = "write",
                   !.status = Some(build_default_result_status(pipe.errors)),
                   !.ran = IF pipe.metadata_fields # None
                           THEN @ \cup { "validate_metadata_consistency" } ELSE @,
                   !.errors = IF pipe.metadata_fields # None
                              THEN @ \o AsExtractionErrors(
                                       validate_metadata_consistency(
                                           pipe.metadata_fields[1], pipe.file[1]))
                              ELSE @]
    /\ UNCHANGED <<val, adm, eco, prg, ui>>

\* lines 325-347: output.json holds the status, the error list, the totals
\* (those of build_default_result unless the summary stage ran) and the
\* row lists; the receipt rows follow the revenue rows.
PipeWriteOutput ==
    /\ pipe.pc = "write"
    /\ pipe' = [pipe EXCEPT !.pc = "done",
                   !.output = Some([status |-> pipe.status[1], errors |-> pipe.errors,
                                    budget_totals |->
                                        IF pipe.budget_totals # None
                                        THEN pipe.budget_totals[1]
                                        ELSE DefaultBudgetTotals,
                                    administrative_units |-> pipe.admin_units,
                                    expenditure_mda |-> pipe.mda_rows,
                                    revenue_breakdown |->
                                        pipe.revenue_rows \o pipe.receipt_rows,
                                    expenditure_economic |-> pipe.expenditure_rows,
                                    programme_projects |-> pipe.programme_rows])]
    /\ UNCHANGED <<val, adm, eco, prg, ui>>

NextPipe ==
    \/ RunPipelineEnter \/ PipeGetPageCount \/ PipeExtractFulltext
    \/ PipePagesAndMetadata \/ PipeAdminUnits \/ PipeEconomic
    \/ PipeProgrammeAndTotals \/ PipeBuildResult \/ PipeWriteOutput

SpecPipe == InitPipe /\ [][NextPipe]_vars

\* C1: the result a run writes has status "failed" exactly when its error
\* list is not empty, and "ok" otherwise.
C1_StatusFailedIffErrors ==
    pipe.pc = "done" =>
        /\ pipe.output[1].status \in { "failed", "ok" }
        /\ pipe.output[1].status = "failed" <=> pipe.output[1].errors # << >>

\* C11: no run of run_pipeline ends in an exception that reaches the
\* caller; every run that has ended has written a result.
C11_NoExceptionPropagates ==
    /\ pipe.raised = None
    /\ pipe.pc # "raised"

\* The closed set of the reasons of a null field.
NullReasons == { "not_extracted", "missing_amount", "parent_not_found", "from_filename" }

\* A field holds a value and no reason, or no value and a reason of the
\* closed set.
WellShaped(field) ==
    \/ field.value # None /\ field.reason = None
    \/ field.value = None /\ field.reason # None /\ field.reason[1] \in NullReasons

\* C21: every field of the metadata of a result holds a value and no
\* reason, or no value and a reason of the closed set; none holds both.
C21_FieldsWellShaped ==
    pipe.metadata_fields # None =>
        /\ WellShaped(pipe.metadata_fields[1].budget_year)
        /\ WellShaped(pipe.metadata_fields[1].state_name)

\* The first error of the run is the one of a subprocess that failed: of
\* pdfinfo or of pdftotext.
SubprocessFailed ==
    /\ pipe.errors # << >>
    /\ pipe.errors[1] \in { ExtractionError("pdfinfo_failed", "stderr"),
                            ExtractionError("pdftotext_failed", "stderr") }

\* C29: when pdfinfo or pdftotext has failed, the run calls no extractor
\* and no validator, pdftotext is not started after a failure of pdfinfo,
\* and the written result has the status failed, that one error and empty
\* row lists.
C29_SubprocessFailureStopsRun ==
    SubprocessFailed =>
        /\ pipe.ran \subseteq { "get_page_count", "extract_fulltext" }
        /\ pipe.errors[1].code = "pdfinfo_failed" => "extract_fulltext" \notin pipe.ran
        /\ Len(pipe.errors) = 1
        /\ pipe.pc = "done" =>
              /\ pipe.output[1].status = "failed"
              /\ pipe.output[1].errors = pipe.errors
              /\ pipe.output[1].administrative_units = << >>
              /\ pipe.output[1].expenditure_mda = << >>
              /\ pipe.output[1].revenue_breakdown = << >>
              /\ pipe.output[1].expenditure_economic = << >>
              /\ pipe.output[1].programme_projects = << >>

\* pdftotext was started for a file with a year in its name and failed, and
\* the result is written.
C29_Witness ==
    /\ pipe.pc = "done"
    /\ pipe.target_year # None
    /\ pipe.ran = { "get_page_count", "extract_fulltext" }
    /\ pipe.output[1].errors = << ExtractionError("pdftotext_failed", "stderr") >>
    /\ pipe.output[1].status = "failed"

\* The place in the order of the stages of the step that raises an error:
\* the subprocesses, the page count, the administrative duplicates, the MDA
\* reconciliation, the four economic validators, the programme validator,
\* the budget components, the global reconciliation, the metadata.
StageOf(error) ==
    CASE error.code = "pdfinfo_failed" /\ error.message = "stderr" -> 1
      [] error.code = "pdftotext_failed" -> 1
      [] error.code \in { "pdfinfo_failed", "text_extraction_failed",
                          "page_count_mismatch" } -> 2
      [] error.code = "duplicate_admin_unit" -> 3
      [] error.code = "mda_reconciliation_failed" -> 4
      [] error.code = "economic_amount_missing" -> 5
      [] error.code = "economic_duplicate_code" -> 6
      [] error.code = "economic_conflicting_code" -> 7
      [] error.code = "economic_reconciliation_failed" -> 8
      [] error.code = "programme_amount_missing" -> 9
      [] error.code = "budget_totals_mismatch" -> 10
      [] error.code \in { "global_expenditure_mismatch", "global_mda_mismatch",
                          "global_programme_mismatch", "global_revenue_mismatch" } -> 11
      [] error.code \in { "metadata_year_mismatch", "metadata_state_mismatch" } -> 12
      [] OTHER -> 0

OrderedByStage(errors) ==
    \A i, j \in 1..Len(errors) : i < j => StageOf(errors[i]) <= StageOf(errors[j])

ErrorCodes(errors) == [i \in 1..Len(errors) |-> errors[i].code]

\* C31: every step of a run leaves the error list with the errors it had,
\* in their places, and with every error behind those of the earlier
\* stages; the written result holds that list.
C31_ErrorsOrderedByStage ==
    [][ /\ IsPrefix(pipe.errors, pipe'.errors)
        /\ OrderedByStage(pipe'.errors)
        /\ \A i \in 1..Len(pipe'.errors) : StageOf(pipe'.errors[i]) >= 1
        /\ pipe'.pc = "done" => pipe'.output[1].errors = pipe'.errors ]_vars

\* A written result with an error of the page count, of the MDA
\* reconciliation, of two economic validators, of the global reconciliation
\* and of the metadata, in this order.
C31_Witness ==
    /\ pipe.pc = "done"
    /\ ErrorCodes(pipe.output[1].errors)
          = << "page_count_mismatch", "mda_reconciliation_failed",
               "economic_duplicate_code", "economic_reconciliation_failed",
               "global_mda_mismatch", "metadata_year_mismatch" >>

\* The functions of the stages that line 251 lets run for a target year.
TargetYearStages ==
    { "extract_economic_rows", "validate_economic_rows", "validate_economic_duplicates",
      "validate_economic_conflicts", "validate_economic_hierarchy",
      "extract_budget_summary", "extract_programme_projects", "extract_receipts",
      "extract_functional_classification", "validate_programme_rows",
      "validate_budget_components", "validate_global_reconciliation" }

\* The functions of the metadata, the administrative units and the MDA
\* groups, lines 236-248 and 321.
YearFreeStages ==
    { "extract_metadata", "extract_admin_units", "validate_admin_unit_codes",
      "validate_mda_reconciliation", "build_mda_groups",
      "validate_metadata_consistency" }

\* C38: in a run on a file whose name holds no year the target year is
\* empty and no function of the economic, summary, programme, receipt and
\* functional stages is called, nor a validator of theirs; the result has
\* no revenue, economic expenditure or programme row and the budget totals
\* of build_default_result, all null with reason not_extracted. Metadata,
\* administrative units and MDA groups are extracted and validated as in
\* any run that reaches the pages (the block of line 210), and their rows
\* are in the result.
C38_NoYearNoTargetYearStages ==
    (pipe.file # None /\ pipe.file[1].year = None) =>
        /\ pipe.target_year = None
        /\ pipe.ran \cap TargetYearStages = {}
        /\ pipe.budget_totals = None
        /\ pipe.pc = "done" =>
              /\ pipe.output[1].revenue_breakdown = << >>
              /\ pipe.output[1].expenditure_economic = << >>
              /\ pipe.output[1].programme_projects = << >>
              /\ \A f \in DOMAIN pipe.output[1].budget_totals :
                    pipe.output[1].budget_totals[f] = null("not_extracted")
              /\ "split_pages" \in pipe.ran =>
                    /\ YearFreeStages \subseteq pipe.ran
                    /\ pipe.metadata_fields # None
                    /\ pipe.output[1].administrative_units = PipeRows(pipe.tables)
                    /\ pipe.output[1].expenditure_mda = PipeRows(pipe.tables)

\* A written result of a file without a year whose pages hold tables: the
\* administrative rows are in it, the MDA reconciliation failed, and no
\* row of the target year is there.
C38_Witness ==
    /\ pipe.pc = "done"
    /\ pipe.file[1].year = None
    /\ pipe.tables
    /\ pipe.output[1].administrative_units = << "row" >>
    /\ pipe.output[1].expenditure_mda = << "row" >>
    /\ ErrorCodes(pipe.output[1].errors) = << "mda_reconciliation_failed" >>
    /\ pipe.output[1].revenue_breakdown = << >>
    /\ YearFreeStages \subseteq pipe.ran

(* ===================== pipeline.build_mda_groups ======================= *)
(* A parent row is [table_type, code, name, amounts]; a unit carries its   *)
(* code and the two parent fields. The dict parents is a sequence of       *)
(* [key, value] in insertion order.                                        *)
(***************************************************************************)

MaxGroupUnits == 3

\* next((item.amount for item in amounts if item.label == label), null)
first_amount(amounts, label) ==
    LET hits == { i \in 1..Len(amounts) : amounts[i].label = label }
    IN  IF hits = {} THEN null("not_extracted")
        ELSE amounts[CHOOSE i \in hits : \A j \in hits : i <= j].amount

\* lines 105-129: the rows of the parent rows of table type expenditure_mda
RECURSIVE parent_groups(_, _)
parent_groups(parent_rows, parents) ==
    IF parent_rows = << >> THEN parents
    ELSE LET parent == Head(parent_rows)
             row == [mda_code |-> with_value(parent.code, << >>),
                     mda_name |-> with_value(parent.name, << >>),
                     recurrent_amount |-> first_amount(parent.amounts, "total_recurrent"),
                     capital_amount   |-> first_amount(parent.amounts, "capital"),
                     total_amount     |-> first_amount(parent.amounts, "total_expenditure"),
                     administrative_units |-> << >>]
         IN  parent_groups(Tail(parent_rows),
                           IF parent.table_type # "expenditure_mda" THEN parents
                           ELSE DictPut(parents, parent.code, row))

\* lines 131-146: each unit with a parent code and a parent name is
\* appended to the row of its parent code, which is made when it is missing.
RECURSIVE attach_units(_, _)
attach_units(admin_units, parents) ==
    IF admin_units = << >> THEN parents
    ELSE LET unit == Head(admin_units)
             parent_code == unit.parent_code.value
             parent_name == unit.parent_name.value
             synthetic == [mda_code |-> with_value(parent_code[1], << >>),
                           mda_name |-> with_value(parent_name[1], << >>),
                           recurrent_amount |-> null("not_extracted"),
                           capital_amount   |-> null("not_extracted"),
                           total_amount     |-> null("not_extracted"),
                           administrative_units |-> << >>]
         IN  IF parent_code = None \/ parent_name = None
                \/ parent_code[1] = << >> \/ parent_name[1] = ""
             THEN attach_units(Tail(admin_units), parents)
             ELSE LET row == IF DictGet(parents, parent_code[1]) = None THEN synthetic
                             ELSE DictGet(parents, parent_code[1])[1]
                  IN  attach_units(
                         Tail(admin_units),
                         DictPut(parents, parent_code[1],
                                 [row EXCEPT !.administrative_units = Append(@, unit)]))

\* Python's order on strings, here of digits.
StrLess(a, b) ==
    \/ LexLess(a, b)
    \/ Len(a) < Len(b) /\ SubSeq(b, 1, Len(a)) = a

\* line 148: the rows by sorted key
RECURSIVE rows_by_key(_, _)
rows_by_key(parents, keys) ==
    IF keys = {} THEN << >>
    ELSE LET least == CHOOSE k \in keys : \A d \in keys \ {k} : StrLess(k, d)
         IN  << DictGet(parents, least)[1] >> \o rows_by_key(parents, keys \ {least})

\* pipeline.build_mda_groups
build_mda_groups(admin_units, parent_rows) ==
    LET parents == attach_units(admin_units, parent_groups(parent_rows, << >>))
    IN  rows_by_key(parents, { parents[i].key : i \in 1..Len(parents) })

GroupParentRow(table_type, code, name) ==
    [table_type |-> table_type, code |-> code, name |-> name,
     amounts |-> << [label |-> "capital", amount |-> with_value(4, << >>)] >>]

GroupParentRows ==
    { << >>,
      << GroupParentRow("expenditure_mda", ParentA, "Education") >>,
      << GroupParentRow("revenue_mda", ParentA, "Education") >>,
      << GroupParentRow("expenditure_mda", ParentB, "Health"),
         GroupParentRow("expenditure_mda", ParentA, "Education") >> }

\* The units: two codes, each under ParentA, under ParentB or with no
\* parent found.
GroupUnits ==
    { [unit_code |-> with_value(code, << >>), parent_code |-> parent[1],
       parent_name |-> parent[2]] :
        code \in { LeafA, LeafX },
        parent \in { << with_value(ParentA, << >>), with_value("Education", << >>) >>,
                     << with_value(ParentB, << >>), with_value("Health", << >>) >>,
                     << null("parent_not_found"), null("parent_not_found") >> } }

InitGroups ==
    /\ val \in { [call |-> "build_mda_groups", admin_units |-> units,
                  parent_rows |-> parent_rows, done |-> FALSE, rows |-> << >>] :
                     units \in SeqsUpTo(GroupUnits, MaxGroupUnits),
                     parent_rows \in GroupParentRows }
    /\ adm = Idle /\ eco = Idle /\ prg = Idle /\ pipe = Idle /\ ui = Idle

BuildMdaGroups ==
    /\ val.call = "build_mda_groups"
    /\ ~val.done
    /\ val' = [val EXCEPT !.done = TRUE,
                          !.rows = build_mda_groups(val.admin_units, val.parent_rows)]
    /\ UNCHANGED <<adm, eco, prg, pipe, ui>>

NextGroups == BuildMdaGroups

SpecGroups == InitGroups /\ [][NextGroups]_vars

\* The number of times x stands in the sequence s.
Count(x, s) == Cardinality({ i \in 1..Len(s) : s[i] = x })

\* The units of the rows, row after row.
RECURSIVE OwnedUnits(_)
OwnedUnits(rows) ==
    IF rows = << >> THEN << >>
    ELSE Head(rows).administrative_units \o OwnedUnits(Tail(rows))

\* C22: the units owned by the rows build_mda_groups returns are the input
\* units, each as often as it stands in the input, and each stands in the
\* row keyed by its parent code; no two rows share a key.
C22_EveryUnitAttachedOnce ==
    val.done =>
        /\ \A unit \in GroupUnits :
             Count(unit, OwnedUnits(val.rows)) = Count(unit, val.admin_units)
        /\ \A r \in 1..Len(val.rows) :
             \A k \in 1..Len(val.rows[r].administrative_units) :
                 val.rows[r].administrative_units[k].parent_code.value
                     = val.rows[r].mda_code.value
        /\ \A r, q \in 1..Len(val.rows) :
             r # q => val.rows[r].mda_code.value # val.rows[q].mda_code.value

(* ============== the programme extractor on a programme with its ======== *)
(* ============== project on the next line                        ======== *)

PrgFundHeader ==
    PrgLine("header", PrgLabels, TRUE, TRUE, "none", << Txt("Programme Code") >>)

\* "CODE - description" alone on its line
PrgProgrammeAlone == PrgData(<< Code(ProgCode, "Roads") >>)

\* an indented project text alone on its line: one column
PrgProjectText == PrgData(<< Txt("Build road") >>)

\* economic, function, fund and location columns and one amount per label
PrgFundRow == PrgData(<< EconCol, FuncCol, FundCol, LocCol, Num(1), Num(2) >>)

PrgProjectLines ==
    { PrgFundHeader,
      PrgLine("header", PrgLabels, TRUE, FALSE, "none", << Txt("Programme Code") >>),
      PrgLine("header", << >>, FALSE, FALSE, "none", << Txt("Programme Code") >>),
      PrgProgrammeAlone,
      PrgData(<< Code(ProgCode, "Roads"), Txt("Build road") >>),
      PrgProjectText,
      PrgData(<< Txt("and bridges"), Txt("phase two") >>),
      PrgFundRow,
      PrgData(<< EconCol, FuncCol, LocCol, Num(1), Num(2) >>) }

NextProgProject == ProgNextPage \/ ProgRead(PrgProjectLines) \/ ProgReturn

SpecProgProject == InitProg /\ [][NextProgProject]_vars

\* The first three lines of the first page were read: a header with a fund
\* column that gave labels and a target column, a programme line alone on
\* its line, and a line holding only a project text.
ProgrammeAndProjectRead ==
    /\ prg.pc = "scan"
    /\ prg.page_index = 1
    /\ prg.nlines = 3
    /\ prg.pending = << >>
    /\ prg.labels = PrgLabels
    /\ prg.target_index # None
    /\ prg.has_fund_column
    /\ prg.prev_line = Some(PrgProjectText)
    /\ prg.current_program_code = Some(ProgCode)
    /\ prg.current_program_desc = << "Roads" >>
    /\ prg.program_continuation \o prg.project_buffer = << "Build road" >>
    /\ prg.rows = << >>

\* C19: after a header that gives labels and a target column, a programme
\* line alone on its line, a line holding only the project text and a line
\* with economic, function, fund and location columns and one amount per
\* label give exactly one row: its project is the text of the second line,
\* its amounts carry the labels of the header, its amount is the column of
\* the target year and its funding source is the fund column.
C19_ProjectOnContinuationLine ==
    [][(ProgrammeAndProjectRead /\ prg'.nlines = 4 /\ prg'.prev_line = Some(PrgFundRow)) =>
          /\ Len(prg'.rows) = 1
          /\ LET row == prg'.rows[1]
             IN  /\ row.programme_code.value = Some(ProgCode)
                 /\ row.project_name.value = Some(<< "Build road" >>)
                 /\ row.amount_labels = PrgLabels
                 /\ [i \in 1..Len(row.amounts) |-> row.amounts[i].amount.value]
                       = << Some(1), Some(2) >>
                 /\ row.amount.value = Some(2)
                 /\ row.funding_source.value = Some(<< FundCol.digits, FundCol.desc >>)]_vars

\* The line starts with a programme code of 11 to 14 digits.
StartsWithProgrammeCode(line) ==
    /\ line.columns # << >>
    /\ line.columns[1].t = "code"
    /\ Len(line.columns[1].digits) \in 11..14

\* The step reads a line of the page.
ProgReadsLine == prg.pc = "scan" /\ prg'.pc = "scan" /\ prg'.nlines = prg.nlines + 1

\* C26: when extract_programme_projects emits a row, the carried programme
\* code, description, continuation list and project buffer are empty right
\* after it; and while no programme code is carried, a line that does not
\* start with a programme code of 11 to 14 digits gives no row and leaves
\* the code absent, so no economic line gives a row before a programme line
\* has been read again.
C26_ProgrammeClearedAfterRow ==
    [][ /\ Len(prg'.rows) > Len(prg.rows) =>
              /\ prg'.current_program_code = None
              /\ prg'.current_program_desc = << >>
              /\ prg'.program_continuation = << >>
              /\ prg'.project_buffer = << >>
        /\ (/\ ProgReadsLine
            /\ prg.current_program_code = None
            /\ ~StartsWithProgrammeCode(prg'.prev_line[1])) =>
              /\ prg'.rows = prg.rows
              /\ prg'.current_program_code = None
      ]_vars

\* A header, a programme line with its project and an economic line gave a
\* row on the first page; the same economic line, read as the first line of
\* the second page, gave none.
C26_Witness ==
    /\ prg.pc = "scan"
    /\ prg.nlines = 4
    /\ prg.page_index = 2
    /\ Len(prg.rows) = 1
    /\ prg.rows[1].page = 1
    /\ prg.prev_line = Some(PrgData(<< EconCol, FuncCol, LocCol, Num(1), Num(2) >>))
    /\ prg.rows[1].line_text = PrgData(<< EconCol, FuncCol, LocCol, Num(1), Num(2) >>)
    /\ prg.current_program_code = None

\* The state the extractor carries from line to line.
ProgCarried(st) ==
    << st.current_program_code, st.current_program_desc, st.program_continuation,
       st.project_buffer, st.current_sector, st.current_objective, st.labels,
       st.target_index, st.has_fund_column >>

\* The step reads a line that holds an economic column and does not start
\* with a programme code.
ProgReadsEconomicLine ==
    /\ ProgReadsLine
    /\ prg'.prev_line[1].kind = "data"
    /\ \E i \in 1..Len(prg'.prev_line[1].columns) :
          /\ prg'.prev_line[1].columns[i].t = "code"
          /\ Len(prg'.prev_line[1].columns[i].digits) = 8
    /\ ~StartsWithProgrammeCode(prg'.prev_line[1])

\* C34: an economic line that does not start with a programme code and
\* gives no row leaves the carried programme code, description,
\* continuation list, project buffer, sector, objective, labels and target
\* index as they were; and the row of such a line that gives one is emitted
\* under the carried programme and project text.
C34_RejectedLineKeepsState ==
    [][ ProgReadsEconomicLine =>
          IF prg'.rows = prg.rows
          THEN ProgCarried(prg') = ProgCarried(prg)
          ELSE LET row == prg'.rows[Len(prg'.rows)]
               IN  /\ prg'.rows = Append(prg.rows, row)
                   /\ row.programme_code.value = prg.current_program_code
                   /\ row.programme.value
                         = Some(NonEmpty(prg.current_program_desc
                                         \o prg.program_continuation))
                   /\ row.project_name.value = Some(NonEmpty(prg.project_buffer))
      ]_vars

\* A header, a programme line with its project and an economic line whose
\* function column does not parse were read: no row, and the programme and
\* the project are still carried.
C34_Witness ==
    /\ prg.pc = "scan"
    /\ prg.nlines = 3
    /\ prg.prev_line = Some(PrgData(<< EconCol, ShortCol, LocCol, Num(1), Num(2) >>))
    /\ prg.labels # << >>
    /\ prg.target_index # None
    /\ prg.current_program_code = Some(ProgCode)
    /\ prg.project_buffer = << "Build road" >>
    /\ prg.rows = << >>

\* The number of columns of the line of a row that follow its location
\* column.
AmountColumnsOf(row) ==
    LET columns == row.line_text.columns
        e       == FirstIndex({ i \in 1..Len(columns) :
                                  columns[i].t = "code" /\ Len(columns[i].digits) = 8 })[1]
        before  == IF row.funding_source.value # None THEN e + 3 ELSE e + 2
    IN  IF Len(columns) > before THEN Len(columns) - before ELSE 0

PrgOneLineRow ==
    PrgData(<< Code(ProgCode, "Roads"), Txt("Build road"), EconCol, FuncCol, LocCol,
               Num(1), Num(2) >>)

\* The programme lines that take part in a row: the headers, a programme
\* line with its project, and lines with an economic column.
PrgRowLines ==
    { PrgLine("header", PrgLabels, TRUE, FALSE, "none", << Txt("Programme Code") >>),
      PrgLine("header", PrgLabels, TRUE, TRUE, "none", << Txt("Programme Code") >>),
      PrgLine("header", << >>, FALSE, FALSE, "none", << Txt("Programme Code") >>),
      PrgData(<< Code(ProgCode, "Roads"), Txt("Build road") >>),
      PrgOneLineRow,
      PrgData(<< EconCol, FuncCol, LocCol, Num(1), Num(2) >>),
      PrgData(<< EconCol, FuncCol, FundCol, LocCol, Num(1), Dash >>) }

InitExtractors == InitAdmin \/ InitEcon \/ InitProg

NextExtractors ==
    \/ AdminNextPage \/ AdminReadLine \/ AdminReturn
    \/ EconNextPage \/ EconReadLine \/ EconReturn \/ EconValidateConflicts
    \/ ProgNextPage \/ ProgRead(PrgRowLines) \/ ProgReturn

SpecExtractors == InitExtractors /\ [][NextExtractors]_vars

\* The lines a header is read with: the line before it when that is a
\* context line, the header, and the context lines among those after it.
HeaderLines(prev_line, line, next_lines, is_context) ==
    (IF prev_line # None /\ is_context[prev_line[1]] THEN << prev_line[1] >> ELSE << >>)
        \o << line >>
        \o SelectSeq(next_lines, LAMBDA l : is_context[l])

\* This step of the administrative extractor reads a header in which
\* label inference recognises no label.
AdminReadsUnlabelledHeader ==
    /\ adm.pc = "scan" /\ adm'.pc = "scan"
    /\ adm'.nlines = adm.nlines + 1
    /\ is_header_line(adm'.prev_line[1])
    /\ infer_labels(HeaderLines(adm.prev_line, adm'.prev_line[1], adm'.pending,
                                [l \in AdmLines |-> is_header_context_line(l)])).labels
          = << >>

EconReadsUnlabelledHeader ==
    /\ eco.pc = "scan" /\ eco'.pc = "scan"
    /\ eco'.nlines = eco.nlines + 1
    /\ eco'.prev_line[1].kind = "header"
    /\ econ_infer_labels(HeaderLines(eco.prev_line, eco'.prev_line[1], eco'.pending,
                                     [l \in EcoLines |-> econ_is_header_context_line(l)]))
          = << >>

ProgReadsUnlabelledHeader ==
    /\ prg.pc = "scan" /\ prg'.pc = "scan"
    /\ prg'.nlines = prg.nlines + 1
    /\ prg'.prev_line[1].kind = "header"
    /\ prog_infer_labels(HeaderLines(prg.prev_line, prg'.prev_line[1], prg'.pending,
                                     [l \in PrgLines |-> prog_is_header_context_line(l)]))
          = << >>

\* The extractor stands under no labels: no header context (administrative),
\* no context or a context without labels (economic), no labels (programme).
AdminUnlabelled(st) == st.pc = "scan" /\ st.header_context = None

EconUnlabelled(st) ==
    st.pc = "scan" /\ (st.context = None \/ st.context[1].labels = << >>)

ProgUnlabelled(st) == st.pc = "scan" /\ st.labels = << >>

\* C16: in each of the three extractors a header in which label inference
\* recognises no label leaves the extractor without labels, and no line read
\* without labels emits a row; rows are emitted again only after a header
\* that yields labels.
C16_NoRowUnderUnlabelledHeader ==
    /\ [][AdminReadsUnlabelledHeader => AdminUnlabelled(adm')]_vars
    /\ [][AdminUnlabelled(adm) => adm'.admin_units = adm.admin_units]_vars
    /\ [][EconReadsUnlabelledHeader => EconUnlabelled(eco')]_vars
    /\ [][EconUnlabelled(eco) =>
            /\ eco'.revenue_rows = eco.revenue_rows
            /\ eco'.expenditure_rows = eco.expenditure_rows]_vars
    /\ [][ProgReadsUnlabelledHeader => ProgUnlabelled(prg')]_vars
    /\ [][ProgUnlabelled(prg) => prg'.rows = prg.rows]_vars

\* The first line of the programme pages was a header without labels, the
\* line after it holds a programme, a project and every column of a row,
\* and no row was emitted.
C16_Witness ==
    /\ prg.pc = "scan"
    /\ prg.nlines = 2
    /\ prg.pending # << >>
    /\ prg.labels = << >>
    /\ prg.prev_line = Some(PrgOneLineRow)
    /\ prg.rows = << >>

\* This step of the administrative extractor begins a page.
AdminBeginsPage ==
    /\ adm.pc = "scan" /\ adm'.pc = "scan"
    /\ adm'.page_index = adm.page_index + 1

\* This step of the administrative extractor reads a line (adm'.prev_line).
AdminReadsLine ==
    /\ adm.pc = "scan" /\ adm'.pc = "scan"
    /\ adm'.nlines = adm.nlines + 1

\* The table type label inference gives the header read in this step.
AdminHeaderTableType ==
    infer_labels(HeaderLines(adm.prev_line, adm'.prev_line[1], adm'.pending,
                             [l \in AdmLines |-> is_header_context_line(l)])).table_type

\* C30: the header context of the administrative extractor belongs to the
\* page and is absent when a page begins; only a header whose table type is
\* expenditure_mda, revenue_mda or expenditure_admin makes it present, a
\* header of any other type makes it absent, and a digit-prefixed line read
\* while it is absent adds no unit and registers no parent.
C30_NoUnitWithoutHeaderOfPage ==
    [][ /\ AdminBeginsPage => adm'.header_context = None
        /\ (AdminReadsLine /\ is_header_line(adm'.prev_line[1])
              /\ AdminHeaderTableType
                    \notin { "expenditure_mda", "revenue_mda", "expenditure_admin" })
             => adm'.header_context = None
        /\ (AdminReadsLine /\ ~is_header_line(adm'.prev_line[1]))
             => adm'.header_context = adm.header_context
        /\ (AdminReadsLine /\ adm.header_context = None
              /\ adm'.prev_line[1].kind = "row")
             => /\ adm'.admin_units = adm.admin_units
                /\ adm'.parents = adm.parents ]_vars

\* Page 1 held an expenditure header and a row that became a unit; the first
\* line of page 2 is the row of another unit, read before any header of that
\* page, and it added no unit.
C30_Witness ==
    /\ adm.pc = "scan"
    /\ adm.page_index = 2
    /\ adm.nlines = 3
    /\ adm.header_context = None
    /\ adm.prev_line
          = Some(RowLine(LeafX, "Agency", << Num(1), Num(2), Num(3), Num(4), Num(7) >>))
    /\ Len(adm.admin_units) = 1
    /\ adm.admin_units[1].page = 1
    /\ adm.parents = << >>

\* The codes registered as parents, in the order of their registration.
ParentKeys(parents) == [i \in 1..Len(parents) |-> parents[i].key]

\* C32 as stated: as C32 below, and moreover a unit whose parent row (a
\* parent of it closer than the one it has, or any parent of it when it has
\* none) is read after the unit's line has parent_not_found.
C32_LeafBeforeParentNotFound ==
    [][ /\ IsPrefix(adm.admin_units, adm'.admin_units)
        /\ IsPrefix(ParentKeys(adm.parents), ParentKeys(adm'.parents))
        /\ Len(adm'.parents) > Len(adm.parents) =>
              LET p == adm'.parents[Len(adm'.parents)].key
              IN  \A i \in 1..Len(adm.admin_units) :
                    LET unit == adm.admin_units[i]
                    IN  (/\ p \in QualifyingParents(unit.unit_code.value[1], { p })
                         /\ unit.parent_code.value # None =>
                               Len(rstrip0(p)) > Len(rstrip0(unit.parent_code.value[1])))
                        => unit.parent_code.value = None
      ]_vars

\* C32: a unit is emitted with a parent code that the parents table held
\* before the unit's line was read, or with parent_not_found when the table
\* then held no parent of it (a unit read after the row of an ancestor and
\* before the row of a closer parent has the ancestor); an emitted unit is
\* never changed afterwards, also when a parent of it is registered later;
\* and the parents table keeps every code it holds, over the lines, the
\* headers and the pages.
C32_ParentRegisteredEarlier ==
    [][ /\ IsPrefix(adm.admin_units, adm'.admin_units)
        /\ IsPrefix(ParentKeys(adm.parents), ParentKeys(adm'.parents))
        /\ (AdminBeginsPage \/ (AdminReadsLine /\ is_header_line(adm'.prev_line[1])))
              => adm'.parents = adm.parents
        /\ Len(adm'.admin_units) > Len(adm.admin_units) =>
              LET unit == adm'.admin_units[Len(adm'.admin_units)]
                  registered == { adm.parents[i].key : i \in 1..Len(adm.parents) }
              IN  /\ adm'.parents = adm.parents
                  /\ IF unit.parent_code.value # None
                     THEN unit.parent_code.value[1] \in registered
                     ELSE /\ unit.parent_code.reason = Some("parent_not_found")
                          /\ QualifyingParents(unit.unit_code.value[1], registered) = {}
      ]_vars

\* The unit of page 1 was read before any parent and has parent_not_found;
\* the row of its parent was read on page 2, is registered, and the unit is
\* as it was.
C32_Witness ==
    /\ adm.pc = "scan"
    /\ adm.page_index = 2
    /\ ParentKeys(adm.parents) = << ParentA >>
    /\ adm.prev_line # None
    /\ adm.prev_line[1].kind = "row"
    /\ adm.prev_line[1].code = ParentA
    /\ Len(adm.admin_units) = 1
    /\ adm.admin_units[1].page = 1
    /\ adm.admin_units[1].unit_code.value = Some(LeafA)
    /\ adm.admin_units[1].parent_code.value = None
    /\ adm.admin_units[1].parent_code.reason = Some("parent_not_found")


\* A populated field has a provenance entry, and every entry of it names a
\* page.
Sourced(field) ==
    field.value # None =>
        /\ field.provenance # << >>
        /\ \A i \in 1..Len(field.provenance) : field.provenance[i].page >= 1

AdminFieldsSourced(unit) ==
    /\ Sourced(unit.parent_code) /\ Sourced(unit.parent_name)
    /\ Sourced(unit.unit_code) /\ Sourced(unit.unit_name)
    /\ \A i \in 1..Len(unit.amounts) : Sourced(unit.amounts[i].amount)

EconFieldsSourced(row) ==
    Sourced(row.code) /\ Sourced(row.category) /\ Sourced(row.amount)

ProgFieldsSourced(row) ==
    /\ Sourced(row.sector) /\ Sourced(row.objective)
    /\ Sourced(row.programme_code) /\ Sourced(row.programme)
    /\ Sourced(row.project_name)
    /\ Sourced(row.economic_code) /\ Sourced(row.economic_description)
    /\ Sourced(row.function_code) /\ Sourced(row.function_description)
    /\ Sourced(row.location_code) /\ Sourced(row.location_description)
    /\ \A i \in 1..Len(row.amounts) : Sourced(row.amounts[i].amount)
    /\ Sourced(row.amount) /\ Sourced(row.funding_source)

\* C20: every populated field the extractors read from the text of the
\* document (codes, names, categories, descriptions, amounts) carries at
\* least one provenance entry of a page numbered from 1 and a line text.
C20_ParsedFieldsHaveProvenance ==
    /\ adm.pc # "idle" =>
         \A i \in 1..Len(adm.admin_units) : AdminFieldsSourced(adm.admin_units[i])
    /\ eco.pc # "idle" =>
         /\ \A i \in 1..Len(eco.revenue_rows) : EconFieldsSourced(eco.revenue_rows[i])
         /\ \A i \in 1..Len(eco.expenditure_rows) :
               EconFieldsSourced(eco.expenditure_rows[i])
    /\ prg.pc # "idle" =>
         \A i \in 1..Len(prg.rows) : ProgFieldsSourced(prg.rows[i])

(* ================= parse_amount and split_columns on text ============== *)
(* A text is the sequence of its characters; a character outside ASCII is  *)
(* written by its name ("en-dash").                                        *)
(* A parsed number is [mantissa, scale], the float mantissa / 10^scale     *)
(* with the least scale; float equality is equality of these records.      *)
(***************************************************************************)

MaxAmountLen == 3

AmountChars == { "0", "1", "2", ",", ".", "-", "en-dash", "(", ")", " ", "x" }

Digits == { "0", "1", "2", "3", "4", "5", "6", "7", "8", "9" }

DigitValue(ch) ==
    CASE ch = "0" -> 0 [] ch = "1" -> 1 [] ch = "2" -> 2 [] ch = "3" -> 3
      [] ch = "4" -> 4 [] ch = "5" -> 5 [] ch = "6" -> 6 [] ch = "7" -> 7
      [] ch = "8" -> 8 [] ch = "9" -> 9

\* The white space of the texts: the space and the tab.
WhiteSpace == { " ", "tab" }

\* str.strip()
RECURSIVE lstrip(_)
lstrip(text) ==
    IF text # << >> /\ Head(text) \in WhiteSpace THEN lstrip(Tail(text)) ELSE text

RECURSIVE rstrip(_)
rstrip(text) ==
    IF text # << >> /\ text[Len(text)] \in WhiteSpace
    THEN rstrip(SubSeq(text, 1, Len(text) - 1)) ELSE text

strip(text) == lstrip(rstrip(text))

\* value.replace(",", "").replace("(", "-").replace(")", "")
replace_separators(text) ==
    LET kept == SelectSeq(text, LAMBDA ch : ch \notin { ",", ")" })
    IN  [i \in 1..Len(kept) |-> IF kept[i] = "(" THEN "-" ELSE kept[i]]

\* re.sub(r"[^0-9.\-]", "", value)
keep_numeric(text) == SelectSeq(text, LAMBDA ch : ch \in Digits \cup { ".", "-" })

RECURSIVE DigitsValue(_)
DigitsValue(digits) ==
    IF digits = << >> THEN 0
    ELSE 10 * DigitsValue(SubSeq(digits, 1, Len(digits) - 1))
         + DigitValue(digits[Len(digits)])

RECURSIVE Normal(_, _)
Normal(mantissa, scale) ==
    IF scale > 0 /\ mantissa % 10 = 0 THEN Normal(mantissa \div 10, scale - 1)
    ELSE [mantissa |-> mantissa, scale |-> scale]

\* float(value) on a text of digits, "." and "-": the number, or None where
\* float raises ValueError (an optional sign, then digits with at most one
\* point and at least one digit).
float(text) ==
    LET negative == text # << >> /\ Head(text) = "-"
        body     == IF negative THEN Tail(text) ELSE text
        points   == { i \in 1..Len(body) : body[i] = "." }
        digits   == SelectSeq(body, LAMBDA ch : ch \in Digits)
        scale    == IF points = {} THEN 0
                    ELSE Len(body) - (CHOOSE i \in points : TRUE)
    IN  IF \/ digits = << >>
           \/ Cardinality(points) > 1
           \/ \E i \in 1..Len(body) : body[i] = "-"
        THEN None
        ELSE Some(Normal((IF negative THEN -1 ELSE 1) * DigitsValue(digits), scale))

Zero == [mantissa |-> 0, scale |-> 0]

\* The body that admin_units.parse_amount and economic.parse_amount share;
\* zero_texts is the set literal of the fourth line.
parse_amount_text(raw, zero_texts) ==
    LET value   == strip(raw)
        cleaned == keep_numeric(replace_separators(value))
    IN  IF value = << >> THEN None
        ELSE IF value \in zero_texts THEN Some(Zero)
        ELSE IF cleaned = << >> \/ cleaned = << "-" >> THEN None
        ELSE float(cleaned)

\* admin_units.py 159: "-" and the en-dash U+2013
AdminZeroTexts == { << "-" >>, << "en-dash" >> }

\* economic.py 140: "-" and a text of three characters, U+00E2 U+20AC
\* U+201C (the bytes of an en-dash read as cp1252)
EconZeroTexts == { << "-" >>, << "a-circumflex", "euro", "left-quote" >> }

admin_units_parse_amount(raw) == parse_amount_text(raw, AdminZeroTexts)

economic_parse_amount(raw) == parse_amount_text(raw, EconZeroTexts)

AmountTexts == SeqsUpTo(AmountChars, MaxAmountLen)

InitAmount ==
    /\ val \in { [call |-> "parse_amount", module |-> m, raw |-> raw,
                  done |-> FALSE, result |-> None] :
                     m \in { "admin_units", "economic" }, raw \in AmountTexts }
    /\ adm = Idle /\ eco = Idle /\ prg = Idle /\ pipe = Idle /\ ui = Idle

ParseAmount ==
    /\ val.call = "parse_amount"
    /\ ~val.done
    /\ val' = [val EXCEPT !.done = TRUE,
                          !.result = IF val.module = "admin_units"
                                     THEN admin_units_parse_amount(val.raw)
                                     ELSE economic_parse_amount(val.raw)]
    /\ UNCHANGED <<adm, eco, prg, pipe, ui>>

NextAmount == ParseAmount

SpecAmount == InitAmount /\ [][NextAmount]_vars

\* The text is "(", digits, ")".
Parenthesised(text) ==
    /\ Len(text) >= 3
    /\ text[1] = "(" /\ text[Len(text)] = ")"
    /\ \A i \in 2..(Len(text) - 1) : text[i] \in Digits

\* C12: in either module parse_amount answers 0.0 to "-" and to a lone
\* en-dash, null to an empty fragment and to one that keeps no digit, and the
\* negated number to digits in parentheses.
C12_ParseAmount ==
    val.done =>
        LET value == strip(val.raw)
        IN  /\ value \in { << "-" >>, << "en-dash" >> } => val.result = Some(Zero)
            /\ value = << >> => val.result = None
            /\ (value \notin { << "-" >>, << "en-dash" >> }
                  /\ ~ \E i \in 1..Len(value) : value[i] \in Digits) => val.result = None
            /\ Parenthesised(value) =>
                 val.result = Some(Normal(-DigitsValue(SubSeq(value, 2, Len(value) - 1)), 0))

MaxColumnLen == 3

MaxColumns == 2

ColumnChars == { "a", " ", "tab" }

\* The number of white-space characters the text starts with.
RECURSIVE RunLen(_)
RunLen(text) ==
    IF text # << >> /\ Head(text) \in WhiteSpace THEN 1 + RunLen(Tail(text)) ELSE 0

\* re.split with \s+ in place of \s{2,}
RECURSIVE re_split_any_run(_, _)
re_split_any_run(text, piece) ==
    IF text = << >> THEN << piece >>
    ELSE IF RunLen(text) >= 1
    THEN << piece >> \o re_split_any_run(SubSeq(text, RunLen(text) + 1, Len(text)), << >>)
    ELSE re_split_any_run(Tail(text), Append(piece, Head(text)))

\* re.split(r"\s{2,}", text): the pieces between the runs of two or more
\* white-space characters; piece is the piece read so far.
RECURSIVE re_split(_, _)
re_split(text, piece) ==
    IF text = << >> THEN << piece >>
    ELSE IF RunLen(text) >= 2
    THEN << piece >> \o re_split(SubSeq(text, RunLen(text) + 1, Len(text)), << >>)
    ELSE re_split(Tail(text), Append(piece, Head(text)))

\* admin_units.split_columns and economic.split_columns (the same body)
split_columns(line) ==
    LET pieces == SelectSeq(re_split(rstrip(line), << >>),
                            LAMBDA col : strip(col) # << >>)
    IN  [i \in 1..Len(pieces) |-> strip(pieces[i])]

\* "   ".join(columns)
RECURSIVE JoinThreeSpaces(_)
JoinThreeSpaces(columns) ==
    IF columns = << >> THEN << >>
    ELSE IF Len(columns) = 1 THEN columns[1]
    ELSE columns[1] \o << " ", " ", " " >> \o JoinThreeSpaces(Tail(columns))

ColumnTexts == SeqsUpTo(ColumnChars, MaxColumnLen) \ { << >> }

InitSplit ==
    /\ \E n \in 0..MaxColumns : \E columns \in [1..n -> ColumnTexts] :
         val = [call |-> "split_columns", columns |-> columns,
                done |-> FALSE, result |-> << >>]
    /\ adm = Idle /\ eco = Idle /\ prg = Idle /\ pipe = Idle /\ ui = Idle

SplitColumns ==
    /\ val.call = "split_columns"
    /\ ~val.done
    /\ val' = [val EXCEPT !.done = TRUE,
                          !.result = split_columns(JoinThreeSpaces(val.columns))]
    /\ UNCHANGED <<adm, eco, prg, pipe, ui>>

NextSplit == SplitColumns

SpecSplit == InitSplit /\ [][NextSplit]_vars

\* The text has no white space at either end and no two white-space
\* characters side by side.
SingleSpaced(text) ==
    /\ text # << >>
    /\ text[1] \notin WhiteSpace /\ text[Len(text)] \notin WhiteSpace
    /\ \A i \in 1..(Len(text) - 1) :
         ~(text[i] \in WhiteSpace /\ text[i + 1] \in WhiteSpace)

\* C13 as stated: split_columns of any non-empty strings joined by three
\* spaces is the list of those strings.
C13_SplitInvertsJoin ==
    val.done => val.result = val.columns

\* C13, amended: split_columns of strings joined by three spaces is the list
\* of those strings when each string is non-empty, has no white space at
\* either end and no two white-space characters side by side.
C13_SplitInvertsJoinOfSingleSpaced ==
    (val.done /\ \A i \in 1..Len(val.columns) : SingleSpaced(val.columns[i]))
        => val.result = val.columns

\* Two columns, one with a single space inside, came back as they were.
C13_Witness ==
    /\ val.done
    /\ val.columns = << << "a", " ", "a" >>, << "a" >> >>
    /\ val.result = val.columns

\* ------------------------------------------------------------------
\* select_target_label on lists of labels
\* ------------------------------------------------------------------

MaxLabels == 3

LabelYears == { 2024, 2025 }

TargetYears == { 2024, 2025, 2026 }

LabelKinds ==
    { "approved_budget", "proposed_budget", "revised_budget", "performance",
      "climate_mitigation" }

SelectLabels == { Label(year, kind) : year \in LabelYears, kind \in LabelKinds }

InitSelect ==
    /\ val \in { [call |-> "select_target_label", labels |-> labels,
                  target_year |-> target_year, done |-> FALSE, result |-> None] :
                     labels \in SeqsUpTo(SelectLabels, MaxLabels),
                     target_year \in TargetYears }
    /\ adm = Idle /\ eco = Idle /\ prg = Idle /\ pipe = Idle /\ ui = Idle

SelectTargetLabel ==
    /\ val.call = "select_target_label"
    /\ ~val.done
    /\ val' = [val EXCEPT !.done = TRUE,
                          !.result = select_target_label(val.labels, val.target_year)]
    /\ UNCHANGED <<adm, eco, prg, pipe, ui>>

NextSelect == SelectTargetLabel

SpecSelect == InitSelect /\ [][NextSelect]_vars

\* The label at index i is of the target year and of one of the kinds.
IsOfYear(i, kinds) ==
    /\ val.labels[i].year = val.target_year
    /\ val.labels[i].kind \in kinds

\* The selection is the first index of the target year and of one of the
\* kinds.
SelectsFirst(kinds) ==
    /\ val.result # None
    /\ IsOfYear(val.result[1], kinds)
    /\ \A j \in 1..(val.result[1] - 1) : ~IsOfYear(j, kinds)

\* C14: select_target_label returns the first index of an approved label of
\* the target year; when there is none the first proposed label of that year;
\* when there is none the first label of that year of the form Y_*_budget;
\* otherwise no index. A label of another year is never selected.
C14_SelectTargetLabel ==
    val.done =>
        LET indices == 1..Len(val.labels)
        IN  /\ IF \E i \in indices : IsOfYear(i, {"approved_budget"})
               THEN SelectsFirst({"approved_budget"})
               ELSE IF \E i \in indices : IsOfYear(i, {"proposed_budget"})
               THEN SelectsFirst({"proposed_budget"})
               ELSE IF \E i \in indices : IsOfYear(i, BudgetKinds)
               THEN SelectsFirst(BudgetKinds)
               ELSE val.result = None
            /\ val.result # None =>
                 val.labels[val.result[1]].year = val.target_year

\* An approved label of the target year was selected behind a proposed label
\* of that year and an approved label of another year.
C14_Witness ==
    /\ val.done
    /\ val.labels = << Label(2025, "proposed_budget"), Label(2024, "approved_budget"),
                       Label(2025, "approved_budget") >>
    /\ val.target_year = 2025
    /\ val.result = Some(3)

\* ------------------------------------------------------------------
\* summary.extract_budget_summary
\* A line is the sequence of its lexical items: Num(n) for a match of
\* NUM_RE, Dash for a lone "-", Txt(s) for a run of words.
\* ------------------------------------------------------------------

MaxSummaryLines == 2

SUMMARY_ITEMS ==
    << [key |-> "total_revenue", phrase |-> "Total Revenue"],
       [key |-> "total_expenditure", phrase |-> "Total Expenditure"],
       [key |-> "recurrent_expenditure", phrase |-> "Recurrent Expenditure"],
       [key |-> "capital_expenditure", phrase |-> "Capital Expenditure"],
       [key |-> "recurrent_revenue", phrase |-> "Recurrent Revenue"] >>

\* pattern.search(line)
summary_pattern_search(phrase, line) ==
    \E i \in 1..Len(line) : line[i] = Txt(phrase)

totals_map(key) ==
    CASE key = "total_revenue"         -> "revenue_total"
      [] key = "total_expenditure"     -> "total_budget"
      [] key = "recurrent_expenditure" -> "recurrent_expenditure_total"
      [] key = "capital_expenditure"   -> "capital_expenditure_total"
      [] key = "recurrent_revenue"     -> "recurrent_revenue"

SummaryNumbers(line) == { i \in 1..Len(line) : line[i].t = "num" }

\* line[: match.start()] for the first match of NUM_RE
summary_label_text(line) ==
    SubSeq(line, 1, FirstIndex(SummaryNumbers(line))[1] - 1)

\* NUM_RE.findall(line[match.start() :])
summary_findall(line) == SelectSeq(line, LAMBDA item : item.t = "num")

\* label_text.startswith("23 -") or label_text.startswith("11 -")
summary_label_has_code(label_text) ==
    /\ Len(label_text) >= 2
    /\ label_text[1] \in { Num(23), Num(11) }
    /\ label_text[2] = Dash

\* re.match(r"^\s*\d+\s*-", line)
summary_line_has_code(line) ==
    /\ Len(line) >= 2
    /\ line[1].t = "num"
    /\ line[2] = Dash

\* The body of the loop over SUMMARY_ITEMS for one key that matches the
\* line, lines 121-176; acc holds totals and recurrent_revenue_value.
summary_item(acc, key, line, target_index, target_year, heading, page_index) ==
    IF SummaryNumbers(line) = {} THEN acc
    ELSE
    LET label_text == summary_label_text(line)
        found      == summary_findall(line)
        columns1   == IF /\ summary_label_has_code(label_text)
                         /\ Len(found) > 1
                      THEN Tail(found) ELSE found
        target_idx == IF Len(columns1) = 4
                      THEN (IF target_year = 2025 THEN 4 ELSE 2)
                      ELSE target_index
        amount_columns == IF summary_line_has_code(line) THEN Tail(columns1) ELSE columns1
    IN  IF target_idx > Len(amount_columns) THEN acc
        ELSE
        LET amount_value == econ_parse_amount(amount_columns[target_idx])
        IN  IF amount_value = None THEN acc
            ELSE
            LET provenance  == << Provenance(page_index, line) >>
                field_value == with_value(amount_value[1], provenance)
                field_key   == totals_map(key)
                totals1 == IF field_key = "recurrent_revenue" THEN acc.totals
                           ELSE [acc.totals EXCEPT ![field_key] = field_value]
                totals2 == IF /\ key = "capital_expenditure"
                              /\ Len(amount_columns) = 4
                              /\ target_year = 2025
                           THEN LET fourth == econ_parse_amount(amount_columns[4])
                                IN  [totals1 EXCEPT !["capital_expenditure_total"] =
                                        with_value(IF fourth # None /\ fourth[1] # 0
                                                   THEN fourth[1] ELSE amount_value[1],
                                                   provenance)]
                           ELSE totals1
                totals3 == IF totals2["budget_summary_text"].value = None /\ heading # None
                           THEN [totals2 EXCEPT !["budget_summary_text"] =
                                    with_value(heading[1],
                                               << Provenance(page_index, heading[1]) >>)]
                           ELSE totals2
            IN  [totals |-> totals3,
                 recurrent_revenue |-> IF field_key = "recurrent_revenue"
                                       THEN Some(field_value)
                                       ELSE acc.recurrent_revenue]

\* The loop over SUMMARY_ITEMS for one line, lines 118-176.
RECURSIVE summary_line(_, _, _, _, _, _, _)
summary_line(acc, items, line, target_index, target_year, heading, page_index) ==
    IF items = << >> THEN acc
    ELSE summary_line(
             IF summary_pattern_search(Head(items).phrase, line)
             THEN summary_item(acc, Head(items).key, line, target_index, target_year,
                               heading, page_index)
             ELSE acc,
             Tail(items), line, target_index, target_year, heading, page_index)

NullTotals ==
    [ f \in { "total_budget", "capital_expenditure_total", "recurrent_expenditure_total",
              "revenue_total", "financing_total", "budget_summary_text" } |->
          null("not_extracted") ]

SummaryColumns3 == << Num(100), Num(200), Num(300) >>

SummaryColumns4 == << Num(100), Num(200), Num(300), Num(400) >>

SummaryItemLines ==
    { prefix \o << Txt(phrase) >> \o columns :
          prefix \in { << >>, << Num(23), Dash >> },
          phrase \in { "Capital Expenditure", "Total Revenue" },
          columns \in { SummaryColumns3, SummaryColumns4 } }

SummaryLines ==
    SummaryItemLines \cup
    { << Txt("Recurrent Revenue"), Num(100), Num(200) >>,
      << Txt("Capital Expenditure") >>,
      << Txt("Opening Balance"), Num(100), Num(200) >> }

\* The labels that infer_labels and _infer_summary_labels read in the lines
\* under the heading of the summary page; none when the page has no heading.
SummaryHeaders ==
    { << >>,
      << Label(2024, "approved_budget"), Label(2025, "approved_budget") >>,
      << Label(2025, "approved_budget"), Label(2026, "approved_budget") >>,
      << Label(2024, "approved_budget"), Label(2024, "performance"),
         Label(2025, "approved_budget"), Label(2026, "approved_budget") >>,
      << Label(2024, "original_budget"), Label(2024, "revised_budget"),
         Label(2024, "performance"), Label(2025, "performance") >> }

SummaryTargetYears == { 2024, 2025, 2026 }

InitSummary ==
    /\ \E n \in 0..MaxSummaryLines :
         \E lines \in [1..n -> SummaryLines] :
           \E labels \in SummaryHeaders :
             \E target_year \in SummaryTargetYears, budget_word \in BOOLEAN :
               val = [call |-> "extract_budget_summary", pc |-> "scan",
                      page_labels |-> labels, page_lines |-> lines,
                      page_budget_word |-> budget_word,
                      target_year |-> target_year,
                      header_labels |-> << >>, summary_heading |-> None,
                      kebbi_style |-> FALSE, summary_page_lines |-> << >>,
                      target_index |-> None, pos |-> 0,
                      totals |-> NullTotals, recurrent_revenue |-> None]
    /\ adm = Idle /\ eco = Idle /\ prg = Idle /\ pipe = Idle /\ ui = Idle

\* Lines 39-57: the heading of the page and the labels under it.
SummaryScanHeading ==
    /\ val.call = "extract_budget_summary"
    /\ val.pc = "scan"
    /\ val' = IF Len(val.page_labels) > Len(val.header_labels)
              THEN [val EXCEPT !.pc = "select",
                               !.header_labels = val.page_labels,
                               !.summary_heading = Some("Approved Budget Summary"),
                               !.summary_page_lines = val.page_lines,
                               !.kebbi_style = val.page_budget_word]
              ELSE [val EXCEPT !.pc = "select"]
    /\ UNCHANGED <<adm, eco, prg, pipe, ui>>

\* Lines 99-113: the target column of the header, or the early return.
SummarySelectTarget ==
    /\ val.call = "extract_budget_summary"
    /\ val.pc = "select"
    /\ LET selected     == select_target_label(val.header_labels, val.target_year)
           target_index == IF /\ selected = None
                              /\ val.kebbi_style
                              /\ Len(val.header_labels) >= 4
                           THEN Some(4) ELSE selected
       IN  val' = IF \/ val.header_labels = << >>
                     \/ target_index = None
                     \/ val.summary_page_lines = << >>
                  THEN [val EXCEPT !.pc = "done"]
                  ELSE [val EXCEPT !.pc = "lines", !.target_index = target_index]
    /\ UNCHANGED <<adm, eco, prg, pipe, ui>>

\* Lines 117-176 for the next line of the summary page.
SummaryReadLine ==
    /\ val.call = "extract_budget_summary"
    /\ val.pc = "lines"
    /\ val.pos < Len(val.summary_page_lines)
    /\ LET acc == summary_line(
                      [totals |-> val.totals, recurrent_revenue |-> val.recurrent_revenue],
                      SUMMARY_ITEMS, val.summary_page_lines[val.pos + 1],
                      val.target_index[1], val.target_year, val.summary_heading, 1)
       IN  val' = [val EXCEPT !.pos = val.pos + 1,
                              !.totals = acc.totals,
                              !.recurrent_revenue = acc.recurrent_revenue]
    /\ UNCHANGED <<adm, eco, prg, pipe, ui>>

\* Lines 178-182.
SummaryReturn ==
    /\ val.call = "extract_budget_summary"
    /\ val.pc = "lines"
    /\ val.pos = Len(val.summary_page_lines)
    /\ val' = [val EXCEPT !.pc = "done",
                          !.totals =
                              IF /\ val.totals["revenue_total"].value = None
                                 /\ val.recurrent_revenue # None
                              THEN [val.totals EXCEPT !["revenue_total"] =
                                       val.recurrent_revenue[1]]
                              ELSE val.totals]
    /\ UNCHANGED <<adm, eco, prg, pipe, ui>>

NextSummary ==
    \/ SummaryScanHeading
    \/ SummarySelectTarget
    \/ SummaryReadLine
    \/ SummaryReturn

SpecSummary == InitSummary /\ [][NextSummary]_vars

\* The line without its leading code and dash.
WithoutCode(line) == SubSeq(line, 3, Len(line))

\* The totals after the next line of the page when that line is `line`.
TotalsAfter(line) ==
    summary_line([totals |-> val.totals, recurrent_revenue |-> val.recurrent_revenue],
                 SUMMARY_ITEMS, line, val.target_index[1], val.target_year,
                 val.summary_heading, 1).totals

\* The amounts of the totals, without their provenance.
TotalValues(totals) == [ f \in DOMAIN totals |-> totals[f].value ]

\* C23: a summary item line that begins with a numeric code and a dash
\* leaves the same amounts in the totals as the same line without the code
\* and the dash: the code is removed before the target column is chosen.
C23_CodePrefixIgnored ==
    [][ (/\ SummaryReadLine
         /\ summary_line_has_code(val.summary_page_lines[val.pos + 1]))
        => TotalValues(val'.totals) =
             TotalValues(TotalsAfter(WithoutCode(val.summary_page_lines[val.pos + 1])))
      ]_vars

\* The years of the labels of the summary header.
HeaderYears == { val.header_labels[i].year : i \in 1..Len(val.header_labels) }

\* The amount columns of a line: its numbers, but for a leading code.
AmountColumns(line) ==
    IF summary_line_has_code(line) THEN Tail(summary_findall(line))
    ELSE summary_findall(line)

\* C24: under a header of two years, a summary line with exactly four numeric
\* columns gives its fourth column when the target year is the later of the
\* two years and its second column otherwise.
C24_FourColumnRule ==
    [][ (/\ SummaryReadLine
         /\ Cardinality(HeaderYears) = 2)
        => LET line    == val.summary_page_lines[val.pos + 1]
               columns == AmountColumns(line)
               later   == CHOOSE y \in HeaderYears : \A z \in HeaderYears : z <= y
           IN  \A k \in 1..Len(SUMMARY_ITEMS) :
                 (/\ summary_pattern_search(SUMMARY_ITEMS[k].phrase, line)
                  /\ ~summary_line_has_code(line)
                  /\ Len(columns) = 4
                  /\ SUMMARY_ITEMS[k].key # "recurrent_revenue")
                 => val'.totals[totals_map(SUMMARY_ITEMS[k].key)].value =
                      IF val.target_year = later THEN econ_parse_amount(columns[4])
                      ELSE econ_parse_amount(columns[2])
      ]_vars

\* ------------------------------------------------------------------
\* receipts.extract_receipts and functional.extract_functional_classification
\* The document is one sequence of lines in which PageBreak separates the
\* pages. A line is the sequence of its parts: Txt(s) for a digit-free
\* text, Code(digits, desc) for "<digits> - <desc>", Num(n) for an amount
\* with thousands separators, Dash, HeadingPart for the section heading,
\* LabelPart(label) for "<year> <status>" and WordPart(kind) for a
\* status word without a year. The empty line is << >>.
\* ------------------------------------------------------------------

MaxReceiptLines == 3

PageBreak == << [t |-> "page_break"] >>

HeadingPart == [t |-> "heading"]

LabelPart(label) == [t |-> "label", label |-> label]

WordPart(kind) == [t |-> "word", kind |-> kind]

\* The line at the offset from position p, when it is on the page of p.
PageLine(lines, p, offset) ==
    LET j  == p + offset
        lo == IF offset < 0 THEN j ELSE p
        hi == IF offset < 0 THEN p ELSE j
    IN  IF j >= 1 /\ j <= Len(lines) /\ \A k \in lo..hi : lines[k] # PageBreak
        THEN << lines[j] >> ELSE << >>

RECURSIVE Concat(_)
Concat(seqs) == IF seqs = << >> THEN << >> ELSE Head(seqs) \o Concat(Tail(seqs))

\* RECEIPT_HEADER_RE.search(line), HEADER_RE.search(line)
table_heading_search(line) == \E i \in 1..Len(line) : line[i] = HeadingPart

\* not line.strip()
table_line_empty(line) == line = << >>

\* line.strip().lower().startswith("total")
table_line_total(line) == line # << >> /\ line[1] = Txt("Total")

RECEIPT_ADMIN_RE == 10..14

RECEIPT_ECON_RE == 6..8

RECEIPT_FUND_RE == 2..6

CodeMatches(text, pattern) ==
    { i \in 1..Len(text) : text[i].t = "code" /\ Len(text[i].digits) \in pattern }

LeastOf(indices) == CHOOSE i \in indices : \A j \in indices : i <= j

GreatestOf(indices) == CHOOSE i \in indices : \A j \in indices : j <= i

\* receipts._parse_receipt_block on the joined lines of a block
parse_receipt_block(text) ==
    LET econ_matches  == CodeMatches(text, RECEIPT_ECON_RE)
        fund_matches  == CodeMatches(text, RECEIPT_FUND_RE)
        admin_matches == CodeMatches(text, RECEIPT_ADMIN_RE)
    IN  IF econ_matches = {} \/ fund_matches = {} THEN None
        ELSE
        LET econ_match == LeastOf(econ_matches)
            fund_after == { i \in fund_matches : i > econ_match }
            fund_match == IF fund_after # {} THEN LeastOf(fund_after)
                          ELSE GreatestOf(fund_matches)
            longest    == { i \in admin_matches :
                              \A j \in admin_matches :
                                  Len(text[j].digits) <= Len(text[i].digits) }
            admin_match == IF admin_matches = {} THEN None ELSE Some(LeastOf(longest))
            receipt_desc == SubSeq(text, 1, econ_match - 1)
            amounts == SelectSeq(SubSeq(text, fund_match + 1, Len(text)),
                                 LAMBDA part : part.t = "num")
        IN  IF \/ receipt_desc = << >>
               \/ \E i \in 1..Len(receipt_desc) : receipt_desc[i].t # "txt"
               \/ amounts = << >>
            THEN None
            ELSE Some([receipt_desc |-> receipt_desc,
                       admin |-> IF admin_match = None THEN None
                                 ELSE Some(text[admin_match[1]]),
                       econ |-> text[econ_match], fund |-> text[fund_match],
                       amounts |-> amounts])

\* The labels the year patterns find in a header text, by offset.
TextLabels(text) ==
    LET parts == SelectSeq(text, LAMBDA part : part.t = "label")
    IN  [ i \in 1..Len(parts) |-> parts[i].label ]

\* receipts._infer_receipt_labels
infer_receipt_labels(header_text) == Dedupe(TextLabels(header_text), {})

\* receipts._select_label_index; the index counts from 1.
select_label_index(labels, target_year) ==
    LET approved == { i \in 1..Len(labels) :
                        labels[i].year = target_year /\ labels[i].kind = "approved_budget" }
        of_year  == { i \in 1..Len(labels) : labels[i].year = target_year }
    IN  IF approved # {} THEN FirstIndex(approved) ELSE FirstIndex(of_year)

\* The last n items of a sequence.
LastItems(s, n) == SubSeq(s, Len(s) - n + 1, Len(s))

\* Lines 62-111: the row of the block that starts at position p, or None.
receipt_row(lines, p, labels, target_index, page_index) ==
    LET line == lines[p]
        combined_lines == << line >> \o PageLine(lines, p, 1) \o PageLine(lines, p, 2)
        parsed_row == parse_receipt_block(Concat(combined_lines))
    IN  IF parsed_row = None THEN None
        ELSE IF Len(parsed_row[1].amounts) < Len(labels) THEN None
        ELSE
        LET amount_cols  == LastItems(parsed_row[1].amounts, Len(labels))
            amount_value == econ_parse_amount(amount_cols[target_index])
        IN  IF amount_value = None THEN None
            ELSE Some([code |-> with_value(parsed_row[1].econ.digits, << >>),
                       category |-> with_value(parsed_row[1].receipt_desc, << >>),
                       subcategory |-> null("not_extracted"),
                       amount |-> with_value(amount_value[1],
                                             << Provenance(page_index, line) >>),
                       classification |-> with_value("receipt", << >>),
                       administrative_code |->
                           IF parsed_row[1].admin = None THEN null("not_extracted")
                           ELSE with_value(parsed_row[1].admin[1].digits, << >>),
                       administrative_description |->
                           IF parsed_row[1].admin = None THEN null("not_extracted")
                           ELSE with_value(parsed_row[1].admin[1].desc, << >>),
                       fund_code |-> with_value(parsed_row[1].fund.digits, << >>),
                       fund_description |-> with_value(parsed_row[1].fund.desc, << >>),
                       page |-> page_index, line_text |-> line])

TableLabels ==
    << LabelPart(Label(2024, "approved_budget")), LabelPart(Label(2025, "approved_budget")) >>

ReceiptEcon == Code(<<1, 1, 0, 1, 0, 1, 0, 1>>, "Statutory Allocation")

ReceiptFund == Code(<<0, 1>>, "Main Envelope")

ReceiptLines ==
    { PageBreak,
      << >>,
      << HeadingPart >> \o TableLabels,
      << HeadingPart >>,
      << Txt("Total"), Num(900), Num(900) >>,
      << Txt("Statutory Allocation"), ReceiptEcon, ReceiptFund, Num(100), Num(200) >>,
      << Txt("Grants"), ReceiptEcon >>,
      << ReceiptFund, Num(300), Num(400) >> }

TableTargetYears == { 2024, 2025 }

InitReceipts ==
    /\ \E n \in 0..MaxReceiptLines :
         \E lines \in [1..n -> ReceiptLines] :
           \E target_year \in TableTargetYears :
             val = [call |-> "extract_receipts", pc |-> "lines",
                    lines |-> lines, target_year |-> target_year,
                    pos |-> 0, page_index |-> 1, in_table |-> FALSE,
                    labels |-> << >>, target_index |-> None, rows |-> << >>]
    /\ adm = Idle /\ eco = Idle /\ prg = Idle /\ pipe = Idle /\ ui = Idle

\* Lines 26-29 for the next page.
ReceiptsNextPage ==
    /\ val.call = "extract_receipts"
    /\ val.pc = "lines"
    /\ val.pos < Len(val.lines)
    /\ val.lines[val.pos + 1] = PageBreak
    /\ val' = [val EXCEPT !.pos = val.pos + 1,
                          !.page_index = val.page_index + 1,
                          !.in_table = FALSE]
    /\ UNCHANGED <<adm, eco, prg, pipe, ui>>

\* Lines 30-113 for the next line of the page.
ReceiptsReadLine ==
    /\ val.call = "extract_receipts"
    /\ val.pc = "lines"
    /\ val.pos < Len(val.lines)
    /\ val.lines[val.pos + 1] # PageBreak
    /\ LET p    == val.pos + 1
           line == val.lines[p]
       IN  IF table_heading_search(line)
           THEN LET header_text == Concat(PageLine(val.lines, p, -1) \o << line >> \o
                                          PageLine(val.lines, p, 1) \o
                                          PageLine(val.lines, p, 2))
                    labels == infer_receipt_labels(header_text)
                IN  val' = [val EXCEPT !.pos = p,
                                       !.labels = labels,
                                       !.target_index =
                                           select_label_index(labels, val.target_year),
                                       !.in_table = TRUE]
           ELSE IF \/ ~val.in_table
                   \/ table_line_empty(line)
                   \/ table_line_total(line)
                   \/ val.target_index = None
                   \/ val.labels = << >>
           THEN val' = [val EXCEPT !.pos = p]
           ELSE LET row == receipt_row(val.lines, p, val.labels, val.target_index[1],
                                       val.page_index)
                IN  val' = [val EXCEPT !.pos = p, !.rows = val.rows \o row]
    /\ UNCHANGED <<adm, eco, prg, pipe, ui>>

\* Line 115.
ReceiptsReturn ==
    /\ val.call = "extract_receipts"
    /\ val.pc = "lines"
    /\ val.pos = Len(val.lines)
    /\ val' = [val EXCEPT !.pc = "done"]
    /\ UNCHANGED <<adm, eco, prg, pipe, ui>>

MaxFunctionalLines == 4

\* The column "<digits> <desc>" of a functional row; "<digits>" when desc
\* is "".
CodeText(digits, desc) == [t |-> "code_text", digits |-> digits, desc |-> desc]

FUNCTIONAL_CODE_RE == 3..6

\* functional._infer_labels: the dated labels by offset, then a default
\* label for each status word that occurs with no year.
functional_infer_labels(header_text) ==
    LET dated == TextLabels(header_text)
        bare(kind) == /\ \E i \in 1..Len(header_text) : header_text[i] = WordPart(kind)
                      /\ \A i \in 1..Len(dated) : dated[i].kind # kind
        default(kind, label) == IF bare(kind) THEN << label >> ELSE << >>
    IN  Dedupe(dated \o default("approved_budget", Label(2025, "approved_budget"))
                     \o default("revised_budget", Label(2024, "revised_budget"))
                     \o default("original_budget", Label(2024, "original_budget"))
                     \o default("performance", Label(2024, "performance")),
               {})

\* Lines 53-105: the row of a line, or None; the columns of the line are
\* its parts.
functional_row(line, labels, target_index, page_index) ==
    LET columns == line
    IN  IF Len(columns) < 3 THEN None
        ELSE IF \/ columns[1].t # "code_text"
                \/ Len(columns[1].digits) \notin FUNCTIONAL_CODE_RE
        THEN None
        ELSE
        LET match       == columns[1].desc # ""
            desc        == IF match THEN columns[1].desc ELSE ColumnText(columns[2])
            amount_cols == IF match THEN Tail(columns) ELSE Tail(Tail(columns))
        IN  IF labels = << >> \/ target_index = None THEN None
            ELSE IF Len(amount_cols) < Len(labels) THEN None
            ELSE
            LET amount_value ==
                    econ_parse_amount(LastItems(amount_cols, Len(labels))[target_index[1]])
            IN  IF amount_value = None THEN None
                ELSE Some([code |-> columns[1].digits, description |-> desc,
                           amount |-> with_value(amount_value[1],
                                                 << Provenance(page_index, line) >>)])

\* any(HEADER_RE.search(line) for line in lines) for the page of position p
PageHasHeading(lines, p) ==
    \E j \in 1..Len(lines) :
        /\ table_heading_search(lines[j])
        /\ \A k \in (IF j < p THEN j ELSE p)..(IF j < p THEN p ELSE j) :
               lines[k] # PageBreak

FunctionalLines ==
    { PageBreak,
      << >>,
      << HeadingPart >>,
      TableLabels,
      << WordPart("approved_budget") >>,
      << Txt("Total"), Num(900), Num(900) >>,
      << CodeText(<<7, 0, 1>>, "General Public Services"), Num(100), Num(200) >> }

InitFunctional ==
    /\ \E n \in 0..MaxFunctionalLines :
         \E lines \in [1..n -> FunctionalLines] :
           \E target_year \in TableTargetYears :
             val = [call |-> "extract_functional_classification", pc |-> "lines",
                    lines |-> lines, target_year |-> target_year,
                    pos |-> 0, page_index |-> 1, in_table |-> FALSE,
                    labels |-> << >>, target_index |-> None, rows |-> << >>]
    /\ adm = Idle /\ eco = Idle /\ prg = Idle /\ pipe = Idle /\ ui = Idle

\* Line 24 for the next page.
FunctionalNextPage ==
    /\ val.call = "extract_functional_classification"
    /\ val.pc = "lines"
    /\ val.pos < Len(val.lines)
    /\ val.lines[val.pos + 1] = PageBreak
    /\ val' = [val EXCEPT !.pos = val.pos + 1, !.page_index = val.page_index + 1]
    /\ UNCHANGED <<adm, eco, prg, pipe, ui>>

\* Lines 27-107 for the next line of the page; the lines of a page without
\* a heading are passed over.
FunctionalReadLine ==
    /\ val.call = "extract_functional_classification"
    /\ val.pc = "lines"
    /\ val.pos < Len(val.lines)
    /\ val.lines[val.pos + 1] # PageBreak
    /\ LET p    == val.pos + 1
           line == val.lines[p]
       IN  IF ~PageHasHeading(val.lines, p)
           THEN val' = [val EXCEPT !.pos = p]
           ELSE IF table_heading_search(line)
           THEN LET header_text == Concat(PageLine(val.lines, p, 1) \o
                                          PageLine(val.lines, p, 2))
                    labels == functional_infer_labels(header_text)
                IN  val' = [val EXCEPT !.pos = p,
                                       !.labels = labels,
                                       !.target_index =
                                           select_target_label(labels, val.target_year),
                                       !.in_table = TRUE]
           ELSE IF \/ ~val.in_table
                   \/ table_line_empty(line)
                   \/ table_line_total(line)
           THEN val' = [val EXCEPT !.pos = p]
           ELSE LET row == functional_row(line, val.labels, val.target_index,
                                          val.page_index)
                IN  val' = [val EXCEPT !.pos = p, !.rows = val.rows \o row]
    /\ UNCHANGED <<adm, eco, prg, pipe, ui>>

\* Line 109.
FunctionalReturn ==
    /\ val.call = "extract_functional_classification"
    /\ val.pc = "lines"
    /\ val.pos = Len(val.lines)
    /\ val' = [val EXCEPT !.pc = "done"]
    /\ UNCHANGED <<adm, eco, prg, pipe, ui>>

InitTables == InitReceipts \/ InitFunctional

NextTables ==
    \/ ReceiptsNextPage
    \/ ReceiptsReadLine
    \/ ReceiptsReturn
    \/ FunctionalNextPage
    \/ FunctionalReadLine
    \/ FunctionalReturn

SpecTables == InitTables /\ [][NextTables]_vars

\* A line of the page of position p, between the last section heading
\* before p and p, is empty or starts with Total; or no heading of the page
\* precedes p.
TableClosedAt(p) ==
    LET headings == { h \in 1..(p - 1) :
                        /\ table_heading_search(val.lines[h])
                        /\ \A k \in h..p : val.lines[k] # PageBreak }
    IN  \/ headings = {}
        \/ \E k \in (GreatestOf(headings) + 1)..(p - 1) :
               table_line_empty(val.lines[k]) \/ table_line_total(val.lines[k])

\* C25: in the receipts and functional extractors no row is emitted from a
\* line that follows an empty line or a line starting with Total, unless a
\* section heading was read in between: the table a heading opens ends at
\* the first such line.
C25_NoRowAfterTerminator ==
    [][ (/\ ReceiptsReadLine \/ FunctionalReadLine
         /\ Len(val'.rows) > Len(val.rows))
        => ~TableClosedAt(val.pos + 1)
      ]_vars

\* The codes of a line whose number of digits the pattern takes.
LineCodes(line, pattern) ==
    { line[k].digits : k \in CodeMatches(line, pattern) }

DuplicateCodes(units, key_of) ==
    { units[j].unit_code.value[1] :
        j \in { k \in 1..Len(units) : \E i \in 1..(k - 1) : key_of[i] = key_of[k] } }

\* validate_admin_unit_codes with the unit code alone as the key
validate_admin_unit_codes_by_code(units) ==
    LET duplicates == DuplicateCodes(units, [i \in 1..Len(units) |->
                                                units[i].unit_code.value])
    IN  IF duplicates # {}
        THEN << ValidationError("duplicate_admin_unit", duplicates) >>
        ELSE << >>

\* validation.validate_admin_unit_codes: the key is (table_type, code).
validate_admin_unit_codes(units) ==
    LET duplicates == DuplicateCodes(units, [i \in 1..Len(units) |->
                                                <<units[i].table_type,
                                                  units[i].unit_code.value>>])
    IN  IF duplicates # {}
        THEN << ValidationError("duplicate_admin_unit", duplicates) >>
        ELSE << >>

\* validation.validate_economic_rows: an error for each row with no amount
validate_economic_rows(revenue_rows, expenditure_rows) ==
    LET missing(rows, label) ==
            [i \in 1..Len(SelectSeq(rows, LAMBDA row : row.amount.value = None)) |->
                ValidationError("economic_amount_missing",
                                <<label, SelectSeq(rows, LAMBDA row :
                                                     row.amount.value = None)[i].line_text>>)]
    IN  missing(revenue_rows, "revenue") \o missing(expenditure_rows, "expenditure")

\* validation.validate_programme_rows: an error for each row that has an
\* amount item with no value
validate_programme_rows(rows) ==
    LET bad == SelectSeq(rows, LAMBDA row :
                   \E k \in 1..Len(row.amounts) : row.amounts[k].amount.value = None)
    IN  [i \in 1..Len(bad) |->
            ValidationError("programme_amount_missing", bad[i].line_text)]

\* pipeline.py 243-247
ValidateAdminUnitCodes ==
    /\ adm.pc = "done"
    /\ adm' = [pc |-> "validated", errors |-> validate_admin_unit_codes(adm.admin_units)]
                  @@ adm
    /\ UNCHANGED <<val, eco, prg, pipe, ui>>

\* pipeline.py 256-262
ValidateEconomicRows ==
    /\ eco.pc = "returned"
    /\ eco' = [eco EXCEPT !.pc = "validated",
                          !.errors = @ \o validate_economic_rows(eco.revenue_rows,
                                                                 eco.expenditure_rows)]
    /\ UNCHANGED <<val, adm, prg, pipe, ui>>

\* pipeline.py 276-283
ValidateProgrammeRows ==
    /\ prg.pc = "done"
    /\ prg' = [pc |-> "validated", errors |-> validate_programme_rows(prg.rows)] @@ prg
    /\ UNCHANGED <<val, adm, eco, pipe, ui>>

NextValidated ==
    \/ AdminNextPage \/ AdminReadLine \/ AdminReturn \/ ValidateAdminUnitCodes
    \/ EconNextPage \/ EconReadLine \/ EconReturn \/ ValidateEconomicRows
    \/ ProgNextPage \/ ProgRead(PrgRowLines) \/ ProgReturn \/ ValidateProgrammeRows

SpecValidated == InitExtractors /\ [][NextValidated]_vars

\* C37: the validators that run_pipeline applies to the rows of the
\* extractors give no duplicate_admin_unit, no economic_amount_missing and
\* no programme_amount_missing error.
C37_ErrorsNeverEmitted ==
    /\ adm.pc = "validated" => ~HasError(adm.errors, "duplicate_admin_unit")
    /\ eco.pc = "validated" => ~HasError(eco.errors, "economic_amount_missing")
    /\ prg.pc = "validated" => ~HasError(prg.errors, "programme_amount_missing")

\* The last line the administrative extractor read was a second accepted
\* row of a key it had kept a unit of; the units were validated and no
\* error came of it.
C37_Witness ==
    /\ adm.pc = "validated"
    /\ adm.errors = << >>
    /\ AcceptedRow(adm)
    /\ \E i \in 1..Len(adm.admin_units) :
         /\ UnitKey(adm.admin_units[i]) =
                <<adm.header_context[1].table_type, adm.prev_line[1].code>>
         /\ adm.admin_units[i].line_text # adm.prev_line[1]

(* ============================== ui.EngineUI ============================ *)
(* The window of the front end (src/ui.py and src/apps/ui.py): the main    *)
(* thread runs the Tk main loop, which calls the commands of the buttons   *)
(* and the callbacks scheduled with root.after, one at a time; run starts  *)
(* a worker thread for each run. ui.threads holds the worker threads in    *)
(* the order they were started, ui.after the callbacks scheduled and not   *)
(* yet called, ui.callbacks the callbacks called, each with the index of   *)
(* the thread that scheduled it. A dialog that was cancelled changes       *)
(* nothing and is no step. Tk does not call the command of a button whose  *)
(* state is DISABLED. The thread is given the path of the PDF as in        *)
(* src/apps/ui.py; the thread of src/ui.py reads self.pdf_path itself.     *)
(***************************************************************************)

MaxRuns == 3

UiPaths == { "adamawa_2025.pdf", "budget.pdf" }

UiStart ==
    [pc |-> "mainloop", pdf_path |-> None, output_dir |-> None, overwrite_var |-> FALSE,
     run_button |-> "normal", status_label |-> "Idle", messagebox |-> None,
     threads |-> << >>, after |-> << >>, callbacks |-> << >>]

InitUi ==
    /\ ui = UiStart
    /\ val = Idle /\ adm = Idle /\ eco = Idle /\ prg = Idle /\ pipe = Idle

\* select_pdf with a path chosen
UiSelectPdf ==
    /\ ui.pc = "mainloop"
    /\ \E path \in UiPaths :
         /\ ui.pdf_path # Some(path)
         /\ ui' = [ui EXCEPT !.pdf_path = Some(path)]
    /\ UNCHANGED <<val, adm, eco, prg, pipe>>

\* select_output with a folder chosen
UiSelectOutput ==
    /\ ui.pc = "mainloop"
    /\ ui.output_dir = None
    /\ ui' = [ui EXCEPT !.output_dir = Some("out")]
    /\ UNCHANGED <<val, adm, eco, prg, pipe>>

\* the check button of overwrite_var
UiToggleOverwrite ==
    /\ ui.pc = "mainloop"
    /\ ui' = [ui EXCEPT !.overwrite_var = ~@]
    /\ UNCHANGED <<val, adm, eco, prg, pipe>>

\* run leaving the state of the button as it is
UiRunButtonStaysNormal ==
    /\ ui.pc = "mainloop"
    /\ ui.run_button = "normal"
    /\ Len(ui.threads) < MaxRuns
    /\ ui' = IF ui.pdf_path = None
             THEN [ui EXCEPT !.messagebox = Some("Missing input")]
             ELSE [ui EXCEPT !.status_label = "Running...",
                             !.threads = Append(@, [pc |-> "try",
                                                    pdf_path |-> ui.pdf_path[1]])]
    /\ UNCHANGED <<val, adm, eco, prg, pipe>>

\* EngineUI.run, the command of the run button: without a PDF an error box
\* and nothing else; else the button is disabled and a worker thread
\* started.
UiRun ==
    /\ ui.pc = "mainloop"
    /\ ui.run_button = "normal"
    /\ Len(ui.threads) < MaxRuns
    /\ ui' = IF ui.pdf_path = None
             THEN [ui EXCEPT !.messagebox = Some("Missing input")]
             ELSE [ui EXCEPT !.run_button = "disabled",
                             !.status_label = "Running...",
                             !.threads = Append(@, [pc |-> "try",
                                                    pdf_path |-> ui.pdf_path[1]])]
    /\ UNCHANGED <<val, adm, eco, prg, pipe>>

\* EngineUI._run_pipeline, the body of the try: run_pipeline (and what
\* stands around it) returns or raises an Exception.
UiRunPipeline(i) ==
    /\ i \in 1..Len(ui.threads)
    /\ ui.threads[i].pc = "try"
    /\ \E raised \in BOOLEAN :
         ui' = [ui EXCEPT !.threads[i] =
                   [pc |-> "ran", pdf_path |-> @.pdf_path,
                    callback |-> IF raised THEN "_on_error" ELSE "_on_success"]]
    /\ UNCHANGED <<val, adm, eco, prg, pipe>>

\* EngineUI._run_pipeline, its last statement on either path: root.after(0,
\* callback); the thread ends with it.
UiAfter(i) ==
    /\ i \in 1..Len(ui.threads)
    /\ ui.threads[i].pc = "ran"
    /\ ui' = [ui EXCEPT !.threads[i].pc = "returned",
                        !.after = Append(@, [thread |-> i,
                                             callback |-> ui.threads[i].callback])]
    /\ UNCHANGED <<val, adm, eco, prg, pipe>>

\* The main loop calls the first scheduled callback, _on_success or
\* _on_error: status, state of the button, message box.
UiCallback ==
    /\ ui.pc = "mainloop"
    /\ ui.after # << >>
    /\ ui' = [ui EXCEPT
                !.after = Tail(@),
                !.callbacks = Append(@, Head(ui.after)),
                !.status_label = IF Head(ui.after).callback = "_on_success"
                                 THEN "Done" ELSE "Failed",
                !.run_button = "normal",
                !.messagebox = IF Head(ui.after).callback = "_on_success"
                               THEN Some("Success") ELSE Some("Extraction failed")]
    /\ UNCHANGED <<val, adm, eco, prg, pipe>>

NextUi ==
    \/ UiSelectPdf \/ UiSelectOutput \/ UiToggleOverwrite \/ UiRun
    \/ (\E i \in 1..MaxRuns : UiRunPipeline(i))
    \/ (\E i \in 1..MaxRuns : UiAfter(i))
    \/ UiCallback

SpecUi == InitUi /\ [][NextUi]_vars

\* A worker thread that was started runs on to its end, and the main loop
\* goes on calling what was scheduled.
SpecUiFair ==
    /\ SpecUi
    /\ WF_vars(\E i \in 1..MaxRuns : UiRunPipeline(i))
    /\ WF_vars(\E i \in 1..MaxRuns : UiAfter(i))
    /\ WF_vars(UiCallback)

\* The callbacks called for thread i.
CallbacksOf(i) == SelectSeq(ui.callbacks, LAMBDA c : c.thread = i)

\* The worker threads that have not ended.
ActiveThreads == { i \in 1..Len(ui.threads) : ui.threads[i].pc # "returned" }

\* C39: at most one worker thread is active at any time; while a run that
\* was started has not had its callback the run button is disabled; a run
\* never has a second callback; the button is disabled by the click that
\* starts a run only and enabled by a callback only, and every callback
\* enables it; and every run that was started has in the end exactly one
\* callback, _on_success or _on_error.
C39_OneWorkerAtATime ==
    /\ [](ui.pc = "mainloop" =>
            /\ Cardinality(ActiveThreads) <= 1
            /\ \A i \in 1..Len(ui.threads) :
                 /\ Len(CallbacksOf(i)) <= 1
                 /\ CallbacksOf(i) = << >> => ui.run_button = "disabled"
                 /\ \A k \in 1..Len(CallbacksOf(i)) :
                      CallbacksOf(i)[k].callback \in { "_on_success", "_on_error" })
    /\ [][ui.pc = "mainloop" =>
            /\ ui'.callbacks # ui.callbacks =>
                 /\ ui'.run_button = "normal"
                 /\ Len(ui'.callbacks) = Len(ui.callbacks) + 1
            /\ (ui.run_button = "normal" /\ ui'.run_button = "disabled") =>
                 Len(ui'.threads) = Len(ui.threads) + 1
            /\ (ui.run_button = "disabled" /\ ui'.run_button = "normal") =>
                 ui'.callbacks # ui.callbacks
            /\ Len(ui'.threads) > Len(ui.threads) => ui'.run_button = "disabled" ]_vars
    /\ \A i \in 1..MaxRuns :
         (ui.pc = "mainloop" /\ Len(ui.threads) >= i) ~>
             (ui.pc = "mainloop" /\ Len(CallbacksOf(i)) = 1)

\* A second run is under way: the first one ended in _on_error, which
\* enabled the button again, and the click of the second disabled it.
C39_Witness ==
    /\ ui.pc = "mainloop"
    /\ Len(ui.threads) = 2
    /\ ui.callbacks = << [thread |-> 1, callback |-> "_on_error"] >>
    /\ ui.threads[2].pc = "try"
    /\ ui.run_button = "disabled"
    /\ ui.status_label = "Running..."

====
